---------------------------- MODULE Spec2Model ----------------------------
(***************************************************************************)
(* Valgrind log analyzer: the data model (models.py), the log parser       *)
(* (log_parser.py) and the issue classifier (issue_classifier.py).         *)
(*                                                                         *)
(* Text is modelled character by character: a log line is a string, and   *)
(* the regular expressions of the parser are matchers that walk it with    *)
(* Len, SubSeq and \o (TLC evaluates the Sequences operators on strings).  *)
(* Python's None is the record None; an Optional value that is present is  *)
(* Some(v).                                                                *)
(***************************************************************************)
EXTENDS Integers, Sequences, FiniteSets, TLC

VARIABLES
    \* models.py: one MemoryIssue construction
    mi_args,        \* the arguments of the last MemoryIssue(...) call
    mi,             \* the MemoryIssue it returned
    \* issue_classifier.py: one call on an IssueClassifier
    cl_input,       \* the issue list handed to the classifier
    cl_call,        \* which public method was called ("none" before the call)
    cl_args,        \* its receiver and severity argument, where it has them
    cl_result,      \* what it returned
    \* log_parser.py: one parse_file call
    lines,          \* the document, a sequence of lines
    pc,             \* position of parse_file
    lines_checked,  \* _validate_valgrind_format: lines read so far
    header_found,   \* _validate_valgrind_format: banner seen
    i,              \* _parse_issues: scan index (0-based, as in the code)
    issues,         \* _parse_issues: issues emitted so far
    outcome,        \* how parse_file ended
    tested,         \* indices of the lines handed to _match_issue_line
    consumed,       \* indices of the lines _extract_stack_trace consumed
    \* log_parser.py: the trace taken after one announcement
    tr_lines,       \* the lines: an announcement and what follows it
    tr_call,        \* "none" before the trace is taken
    tr_result,      \* the trace, the lines consumed, the source location
    \* valgrind_analyzer.py: parse-and-classify invocations on shared objects
    parser,         \* the LogParser: its attributes
    classifier,     \* the IssueClassifier: its attributes
    run,            \* per invocation: its locals and its position
    schedule        \* the invocations in the order they took their turns

vars == <<mi_args, mi, cl_input, cl_call, cl_args, cl_result,
          lines, pc, lines_checked, header_found, i, issues, outcome,
          tested, consumed,
          tr_lines, tr_call, tr_result,
          parser, classifier, run, schedule>>

modelVars == <<mi_args, mi>>
classifierVars == <<cl_input, cl_call, cl_args, cl_result>>
parserVars ==
    <<lines, pc, lines_checked, header_found, i, issues, outcome, tested,
      consumed>>
traceVars == <<tr_lines, tr_call, tr_result>>
runVars == <<parser, classifier, run, schedule>>

---------------------------------------------------------------------------
(* Bounds of the model *)

MaxIssues == 3      \* longest issue list handed to the classifier
MaxBody == 2        \* lines of a document after its padding
MaxTrace == 3       \* lines that follow an announcement
MaxKeys == 11       \* distinct source keys in one issue list
MaxFrames == 2      \* frame lines of a document made of frame fields
MaxScan == 3        \* lines that follow a document's first announcement
MaxTurns == 6       \* turns of interleaved invocations kept in the schedule

---------------------------------------------------------------------------
(* Generic helpers *)

None == [some |-> FALSE]
Some(v) == [some |-> TRUE, val |-> v]

\* Python truthiness of an Optional[str] / Optional[int]
TruthyText(o) == o.some /\ o.val # ""
TruthyInt(o) == o.some /\ o.val # 0

RECURSIVE SeqSum(_)
SeqSum(s) == IF s = <<>> THEN 0 ELSE Head(s) + SeqSum(Tail(s))

RECURSIVE SetSum(_, _)
SetSum(f, S) ==
    IF S = {} THEN 0
    ELSE LET k == CHOOSE k \in S : TRUE IN f[k] + SetSum(f, S \ {k})

\* sum of the values of a dict
DictSum(d) == SetSum(d, DOMAIN d)

Range(s) == {s[k] : k \in DOMAIN s}

\* number of positions of s holding x
Count(s, x) == Cardinality({k \in DOMAIN s : s[k] = x})

SameBag(s, t) == \A x \in Range(s) \cup Range(t) : Count(s, x) = Count(t, x)

---------------------------------------------------------------------------
(* models.py *)

DEFINITELY_LOST == "definitely_lost"
POSSIBLY_LOST == "possibly_lost"
STILL_REACHABLE == "still_reachable"
INVALID_READ == "invalid_read"
INVALID_WRITE == "invalid_write"
USE_AFTER_FREE == "use_after_free"
OTHER_TYPE == "other"

IssueType == {DEFINITELY_LOST, POSSIBLY_LOST, STILL_REACHABLE, INVALID_READ,
              INVALID_WRITE, USE_AFTER_FREE, OTHER_TYPE}

CRITICAL == 1
HIGH == 2
MEDIUM == 3
LOW == 4
INFO == 5

IssueSeverity == {CRITICAL, HIGH, MEDIUM, LOW, INFO}

StackFrame(address, function_name, library, source_file, line_number) ==
    [address |-> address, function_name |-> function_name, library |-> library,
     source_file |-> source_file, line_number |-> line_number]

\* the dict literal of __post_init__
severity_mapping ==
    [k \in IssueType |->
        CASE k = DEFINITELY_LOST -> CRITICAL
          [] k = POSSIBLY_LOST -> HIGH
          [] k = INVALID_READ -> CRITICAL
          [] k = INVALID_WRITE -> CRITICAL
          [] k = USE_AFTER_FREE -> CRITICAL
          [] k = STILL_REACHABLE -> LOW
          [] k = OTHER_TYPE -> MEDIUM]

\* A plausible slip: possibly-lost leaks ranked like definite ones.
post_init_possibly_critical(issue_type, severity) ==
    IF severity = MEDIUM
    THEN IF issue_type = POSSIBLY_LOST THEN CRITICAL
         ELSE severity_mapping[issue_type]
    ELSE severity

\* A plausible slip: the severity left as the field has it (no
\* __post_init__ adjustment).
post_init_severity_kept(issue_type, severity) == severity

\* MemoryIssue.__post_init__: the severity the instance ends with
__post_init__(issue_type, severity) ==
    IF severity = MEDIUM
    THEN IF issue_type \in DOMAIN severity_mapping
         THEN severity_mapping[issue_type] ELSE MEDIUM
    ELSE severity

\* the dataclass default of the severity field
default_severity == MEDIUM

MemoryIssue(issue_type, bytes_count, blocks_count, loss_record, stack_trace, source_location, severity) ==
    [issue_type |-> issue_type, bytes_count |-> bytes_count,
     blocks_count |-> blocks_count, loss_record |-> loss_record,
     stack_trace |-> stack_trace, source_location |-> source_location,
     severity |-> __post_init__(issue_type, severity)]

Statistics(total_issues, total_bytes_lost, total_blocks_lost, issues_by_type, bytes_by_type, blocks_by_type, top_sources, severity_distribution) ==
    [total_issues |-> total_issues, total_bytes_lost |-> total_bytes_lost,
     total_blocks_lost |-> total_blocks_lost, issues_by_type |-> issues_by_type,
     bytes_by_type |-> bytes_by_type, blocks_by_type |-> blocks_by_type,
     top_sources |-> top_sources,
     severity_distribution |-> severity_distribution]

ClassifiedIssues(issues_by_type, statistics, all_issues) ==
    [issues_by_type |-> issues_by_type, statistics |-> statistics,
     all_issues |-> all_issues]

EmptyDict == [k \in {} |-> 0]

---------------------------------------------------------------------------
(* issue_classifier.py *)

\* Counter()[k] += n, the Counter seen as a dict
counter_add(c, k, n) ==
    IF k \in DOMAIN c THEN [c EXCEPT ![k] = @ + n] ELSE (k :> n) @@ c

\* Counter()[k] += 1 on a Counter kept in insertion order, as a sequence of
\* [key, n] entries (most_common depends on that order)
ordered_counter_inc(c, k) ==
    IF \E p \in DOMAIN c : c[p].key = k
    THEN [p \in DOMAIN c |->
            IF c[p].key = k THEN [key |-> k, n |-> c[p].n + 1] ELSE c[p]]
    ELSE Append(c, [key |-> k, n |-> 1])

\* _group_issues_by_type: defaultdict(list), one append per issue
RECURSIVE _group_issues_by_type_from(_, _)
_group_issues_by_type_from(iss, grouped) ==
    IF iss = <<>> THEN grouped
    ELSE LET x == Head(iss)
             t == x.issue_type
         IN _group_issues_by_type_from(Tail(iss),
                IF t \in DOMAIN grouped
                THEN [grouped EXCEPT ![t] = Append(@, x)]
                ELSE (t :> <<x>>) @@ grouped)

\* A plausible slip: grouped[t] = [issue], the list replaced at each issue
\* of the kind instead of appended to.
_group_issues_by_type_last_only(iss) ==
    LET grouped == _group_issues_by_type_from(iss, [k \in {} |-> <<>>])
    IN [t \in DOMAIN grouped |-> <<grouped[t][Len(grouped[t])]>>]

_group_issues_by_type(iss) ==
    _group_issues_by_type_from(iss, [k \in {} |-> <<>>])

\* A plausible slip: the frame taken is the last of the trace
\* (stack_trace[-1]), not the first.
source_key_last_frame(x) ==
    IF TruthyText(x.source_location) THEN Some(x.source_location.val)
    ELSE IF x.stack_trace # <<>>
         THEN LET top_frame == x.stack_trace[Len(x.stack_trace)]
              IN IF top_frame.function_name # "unknown"
                 THEN Some(top_frame.function_name \o " (" \o
                           top_frame.library \o ")")
                 ELSE None
         ELSE None

\* the key of an issue in the top-sources count, None if it contributes none
source_key(x) ==
    IF TruthyText(x.source_location) THEN Some(x.source_location.val)
    ELSE IF x.stack_trace # <<>>
         THEN LET top_frame == x.stack_trace[1]
              IN IF top_frame.function_name # "unknown"
                 THEN Some(top_frame.function_name \o " (" \o
                           top_frame.library \o ")")
                 ELSE None
         ELSE None

RECURSIVE count_sources(_, _)
count_sources(iss, source_counter) ==
    IF iss = <<>> THEN source_counter
    ELSE LET sk == source_key(Head(iss))
         IN count_sources(Tail(iss),
                IF sk.some THEN ordered_counter_inc(source_counter, sk.val)
                ELSE source_counter)

\* A plausible slip: an entry goes before the entries of equal count that
\* were counted earlier.
RECURSIVE insert_by_count_ties_first(_, _)
insert_by_count_ties_first(done, e) ==
    IF done = <<>> THEN <<e>>
    ELSE IF Head(done).n > e.n
         THEN <<Head(done)>> \o insert_by_count_ties_first(Tail(done), e)
         ELSE <<e>> \o done

\* Counter.most_common(limit): entries by count, largest first, entries of
\* equal count in insertion order; the first `limit` of them
RECURSIVE insert_by_count(_, _)
insert_by_count(done, e) ==
    IF done = <<>> THEN <<e>>
    ELSE IF Head(done).n >= e.n
         THEN <<Head(done)>> \o insert_by_count(Tail(done), e)
         ELSE <<e>> \o done

RECURSIVE sort_by_count(_, _)
sort_by_count(c, done) ==
    IF c = <<>> THEN done
    ELSE sort_by_count(Tail(c), insert_by_count(done, Head(c)))

\* A plausible slip: the limit is not handed on to most_common.
most_common_unlimited(c, limit) == sort_by_count(c, <<>>)

most_common(c, limit) ==
    LET all == sort_by_count(c, <<>>)
    IN SubSeq(all, 1, IF Len(all) < limit THEN Len(all) ELSE limit)

top_sources_limit == 10

_identify_top_sources(iss, limit) ==
    LET source_counter == count_sources(iss, <<>>)
        top == most_common(source_counter, limit)
    IN [p \in DOMAIN top |-> top[p].key]

\* the aggregation loop of calculate_statistics
RECURSIVE aggregate(_, _)
aggregate(iss, acc) ==
    IF iss = <<>> THEN acc
    ELSE LET x == Head(iss)
         IN aggregate(Tail(iss),
              [issues_by_type |->
                   counter_add(acc.issues_by_type, x.issue_type, 1),
               bytes_by_type |->
                   counter_add(acc.bytes_by_type, x.issue_type, x.bytes_count),
               blocks_by_type |->
                   counter_add(acc.blocks_by_type, x.issue_type,
                               x.blocks_count),
               severity_distribution |->
                   counter_add(acc.severity_distribution, x.severity, 1),
               total_bytes |-> acc.total_bytes + x.bytes_count,
               total_blocks |-> acc.total_blocks + x.blocks_count])

\* A plausible slip: the per-kind byte counter counts issues, not bytes.
calculate_statistics_bytes_as_count(iss) ==
    IF iss = <<>>
    THEN Statistics(0, 0, 0, EmptyDict, EmptyDict, EmptyDict, <<>>, EmptyDict)
    ELSE LET acc == aggregate(iss,
                 [issues_by_type |-> EmptyDict, bytes_by_type |-> EmptyDict,
                  blocks_by_type |-> EmptyDict,
                  severity_distribution |-> EmptyDict,
                  total_bytes |-> 0, total_blocks |-> 0])
         IN Statistics(Len(iss), acc.total_bytes, acc.total_blocks,
                       acc.issues_by_type, acc.issues_by_type,
                       acc.blocks_by_type,
                       _identify_top_sources(iss, top_sources_limit),
                       acc.severity_distribution)

calculate_statistics(iss) ==
    IF iss = <<>>
    THEN Statistics(0, 0, 0, EmptyDict, EmptyDict, EmptyDict, <<>>, EmptyDict)
    ELSE LET acc == aggregate(iss,
                 [issues_by_type |-> EmptyDict, bytes_by_type |-> EmptyDict,
                  blocks_by_type |-> EmptyDict,
                  severity_distribution |-> EmptyDict,
                  total_bytes |-> 0, total_blocks |-> 0])
         IN Statistics(Len(iss), acc.total_bytes, acc.total_blocks,
                       acc.issues_by_type, acc.bytes_by_type,
                       acc.blocks_by_type,
                       _identify_top_sources(iss, top_sources_limit),
                       acc.severity_distribution)

\* priority_key of prioritize_issues
priority_key(x) == <<x.severity, 0 - x.bytes_count, 0 - x.blocks_count>>

\* Python's ordering of two 3-tuples of integers: a < b
tuple_less(a, b) ==
    \/ a[1] < b[1]
    \/ a[1] = b[1] /\ a[2] < b[2]
    \/ a[1] = b[1] /\ a[2] = b[2] /\ a[3] < b[3]

\* sorted(..., key=priority_key) is stable: an element goes after every
\* element already placed whose key is not greater than its own
RECURSIVE insert_stable(_, _)
insert_stable(done, x) ==
    IF done = <<>> THEN <<x>>
    ELSE IF tuple_less(priority_key(x), priority_key(Head(done)))
         THEN <<x>> \o done
         ELSE <<Head(done)>> \o insert_stable(Tail(done), x)

RECURSIVE sorted_from(_, _)
sorted_from(iss, done) ==
    IF iss = <<>> THEN done
    ELSE sorted_from(Tail(iss), insert_stable(done, Head(iss)))

\* A plausible slip: the byte count not negated in the key (ascending bytes).
priority_key_bytes_ascending(x) ==
    <<x.severity, x.bytes_count, 0 - x.blocks_count>>

RECURSIVE insert_bytes_ascending(_, _)
insert_bytes_ascending(done, x) ==
    IF done = <<>> THEN <<x>>
    ELSE IF tuple_less(priority_key_bytes_ascending(x),
                       priority_key_bytes_ascending(Head(done)))
         THEN <<x>> \o done
         ELSE <<Head(done)>> \o insert_bytes_ascending(Tail(done), x)

RECURSIVE prioritize_issues_bytes_ascending_from(_, _)
prioritize_issues_bytes_ascending_from(iss, done) ==
    IF iss = <<>> THEN done
    ELSE prioritize_issues_bytes_ascending_from(Tail(iss),
             insert_bytes_ascending(done, Head(iss)))

prioritize_issues_bytes_ascending(iss) ==
    prioritize_issues_bytes_ascending_from(iss, <<>>)

\* A plausible slip: a sort that is not stable (an element goes before the
\* elements of equal key already placed).
RECURSIVE insert_unstable(_, _)
insert_unstable(done, x) ==
    IF done = <<>> THEN <<x>>
    ELSE IF tuple_less(priority_key(Head(done)), priority_key(x))
         THEN <<Head(done)>> \o insert_unstable(Tail(done), x)
         ELSE <<x>> \o done

RECURSIVE prioritize_issues_unstable_from(_, _)
prioritize_issues_unstable_from(iss, done) ==
    IF iss = <<>> THEN done
    ELSE prioritize_issues_unstable_from(Tail(iss),
             insert_unstable(done, Head(iss)))

prioritize_issues_unstable(iss) == prioritize_issues_unstable_from(iss, <<>>)

prioritize_issues(iss) == sorted_from(iss, <<>>)

\* A plausible slip: the empty statistics list every kind with a zero count.
_create_empty_classification_zero_entries ==
    ClassifiedIssues([k \in {} |-> <<>>],
        Statistics(0, 0, 0, [k \in IssueType |-> 0], [k \in IssueType |-> 0],
                   [k \in IssueType |-> 0], <<>>, EmptyDict),
        <<>>)

_create_empty_classification ==
    ClassifiedIssues([k \in {} |-> <<>>],
        Statistics(0, 0, 0, EmptyDict, EmptyDict, EmptyDict, <<>>, EmptyDict),
        <<>>)

\* A plausible slip: issues.sort(key=priority_key) for sorted(issues, ...):
\* the argument list itself is put in priority order.
issues_after_sort_in_place(iss) == prioritize_issues(iss)

\* the list handed to sorted(issues, key=priority_key), after the call:
\* sorted builds a new list
issues_after_sorted(iss) == iss

\* the list after a loop or a comprehension over it ("for issue in
\* issues"): the issues are read, none is assigned to, and the lists they
\* are appended to are new ones
issues_after_iteration(iss) == iss

\* A plausible slip: the per-kind lists are left in input order, only the
\* full list is sorted.
classify_issues_groups_unsorted(iss) ==
    IF iss = <<>> THEN _create_empty_classification
    ELSE ClassifiedIssues(_group_issues_by_type(iss),
                          calculate_statistics(iss), prioritize_issues(iss))

classify_issues(iss) ==
    IF iss = <<>> THEN _create_empty_classification
    ELSE LET grouped == _group_issues_by_type(iss)
             statistics == calculate_statistics(iss)
             prioritized_issues_by_type ==
                 [t \in DOMAIN grouped |-> prioritize_issues(grouped[t])]
             all_prioritized_issues == prioritize_issues(iss)
         IN ClassifiedIssues(prioritized_issues_by_type, statistics,
                             all_prioritized_issues)

\* A plausible slip: the severity compared by rank, "at least as severe".
get_issues_by_severity_at_least(iss, severity) ==
    SelectSeq(iss, LAMBDA issue : issue.severity <= severity)

\* IssueClassifier.get_issues_by_severity
get_issues_by_severity(iss, severity) ==
    SelectSeq(iss, LAMBDA issue : issue.severity = severity)

\* IssueClassifier.get_critical_issues
get_critical_issues(iss) ==
    prioritize_issues(get_issues_by_severity(iss, CRITICAL))

\* ClassifiedIssues.get_critical_issues
ClassifiedIssues_get_critical_issues(self) ==
    SelectSeq(self.all_issues, LAMBDA issue : issue.severity = CRITICAL)

\* ClassifiedIssues.get_issues_by_severity
ClassifiedIssues_get_issues_by_severity(self, severity) ==
    SelectSeq(self.all_issues, LAMBDA issue : issue.severity = severity)

---------------------------------------------------------------------------
(* Text: what str and re do, on strings *)

Digit == {"0", "1", "2", "3", "4", "5", "6", "7", "8", "9"}
UpperHex == Digit \cup {"A", "B", "C", "D", "E", "F"}
AnyCaseHex == UpperHex \cup {"a", "b", "c", "d", "e", "f"}
DigitOrComma == Digit \cup {","}
Space == {" ", "\t", "\n", "\r", "\f"}

\* the character of s at position p (1-based), "" outside s
At(s, p) == IF p >= 1 /\ p <= Len(s) THEN SubSeq(s, p, p) ELSE ""

\* s[p:] for a 1-based p
From(s, p) == IF p > Len(s) THEN "" ELSE SubSeq(s, p, Len(s))

\* str.lower on the letters log lines are written with
lower_char(c) ==
    CASE c = "A" -> "a" [] c = "B" -> "b" [] c = "C" -> "c" [] c = "D" -> "d"
      [] c = "E" -> "e" [] c = "F" -> "f" [] c = "G" -> "g" [] c = "H" -> "h"
      [] c = "I" -> "i" [] c = "J" -> "j" [] c = "K" -> "k" [] c = "L" -> "l"
      [] c = "M" -> "m" [] c = "N" -> "n" [] c = "O" -> "o" [] c = "P" -> "p"
      [] c = "Q" -> "q" [] c = "R" -> "r" [] c = "S" -> "s" [] c = "T" -> "t"
      [] c = "U" -> "u" [] c = "V" -> "v" [] c = "W" -> "w" [] c = "X" -> "x"
      [] c = "Y" -> "y" [] c = "Z" -> "z" [] OTHER -> c

RECURSIVE lower(_)
lower(s) == IF s = "" THEN "" ELSE lower_char(Head(s)) \o lower(Tail(s))

\* s.startswith(t)
startswith(s, t) == Len(s) >= Len(t) /\ SubSeq(s, 1, Len(t)) = t

\* t in s
contains(s, t) ==
    \E p \in 1..(Len(s) - Len(t) + 1) : SubSeq(s, p, p + Len(t) - 1) = t

\* s.lstrip(), s.rstrip(), s.strip()
RECURSIVE lstrip(_)
lstrip(s) == IF s # "" /\ Head(s) \in Space THEN lstrip(Tail(s)) ELSE s

RECURSIVE rstrip(_)
rstrip(s) ==
    IF s # "" /\ At(s, Len(s)) \in Space
    THEN rstrip(SubSeq(s, 1, Len(s) - 1)) ELSE s

strip(s) == rstrip(lstrip(s))

\* s.replace(c, "") for a one-character c
RECURSIVE remove_char(_, _)
remove_char(s, c) ==
    IF s = "" THEN ""
    ELSE (IF Head(s) = c THEN "" ELSE Head(s)) \o remove_char(Tail(s), c)

digit_value(c) ==
    CASE c = "0" -> 0 [] c = "1" -> 1 [] c = "2" -> 2 [] c = "3" -> 3
      [] c = "4" -> 4 [] c = "5" -> 5 [] c = "6" -> 6 [] c = "7" -> 7
      [] c = "8" -> 8 [] c = "9" -> 9

RECURSIVE decimal_value(_, _)
decimal_value(s, acc) ==
    IF s = "" THEN acc
    ELSE decimal_value(Tail(s), 10 * acc + digit_value(Head(s)))

\* int(s) for a text of digits: the value, or None where int raises
\* ValueError (the empty text)
int(s) ==
    IF s # "" /\ \A p \in 1..Len(s) : At(s, p) \in Digit
    THEN Some(decimal_value(s, 0)) ELSE None

digit_char(n) ==
    CASE n = 0 -> "0" [] n = 1 -> "1" [] n = 2 -> "2" [] n = 3 -> "3"
      [] n = 4 -> "4" [] n = 5 -> "5" [] n = 6 -> "6" [] n = 7 -> "7"
      [] n = 8 -> "8" [] n = 9 -> "9"

\* str(n) for n >= 0
RECURSIVE str(_)
str(n) == IF n < 10 THEN digit_char(n) ELSE str(n \div 10) \o digit_char(n % 10)

(* Pieces of a regular expression.  A piece takes the position where it    *)
(* starts and gives the position after what it matched, 0 when it does not *)
(* match; a piece that starts at 0 gives 0, so pieces chain.  A pattern    *)
(* that begins with ==\d+== is given up at once where the line has no "=". *)

\* the end of the longest run of characters of `class` that starts at p
RECURSIVE run_end(_, _, _)
run_end(s, p, class) ==
    IF At(s, p) \in class THEN run_end(s, p + 1, class) ELSE p

\* [class]+ (greedy; what follows it in every pattern here cannot start
\* with a character of the class, so the longest run is the only match)
re_plus(s, p, class) ==
    IF p = 0 THEN 0
    ELSE LET q == run_end(s, p, class) IN IF q > p THEN q ELSE 0

\* [class]*
re_star(s, p, class) == IF p = 0 THEN 0 ELSE run_end(s, p, class)

\* the end of the longest run of characters other than c
RECURSIVE run_end_not(_, _, _)
run_end_not(s, p, c) ==
    IF At(s, p) # "" /\ At(s, p) # c THEN run_end_not(s, p + 1, c) ELSE p

\* [^c]+
re_plus_not(s, p, c) ==
    IF p = 0 THEN 0
    ELSE LET q == run_end_not(s, p, c) IN IF q > p THEN q ELSE 0

\* a literal, under re.IGNORECASE (t is written in lower case)
re_lit_i(s, p, t) ==
    IF p = 0 \/ p + Len(t) - 1 > Len(s) THEN 0
    ELSE IF lower(SubSeq(s, p, p + Len(t) - 1)) = t THEN p + Len(t) ELSE 0

\* a literal, case-sensitive
re_lit(s, p, t) ==
    IF p = 0 \/ p + Len(t) - 1 > Len(s) THEN 0
    ELSE IF SubSeq(s, p, p + Len(t) - 1) = t THEN p + Len(t) ELSE 0

\* x? for a one-character literal under re.IGNORECASE
re_opt_i(s, p, t) ==
    IF p = 0 THEN 0
    ELSE LET q == re_lit_i(s, p, t) IN IF q # 0 THEN q ELSE p

\* ==\d+==
re_pid_prefix(s, p) ==
    re_lit(s, re_plus(s, re_lit(s, p, "=="), Digit), "==")

---------------------------------------------------------------------------
(* log_parser.py *)

\* _valgrind_header_pattern  ==\d+==\s+Memcheck,  (case-sensitive)
header_match_at(s, p) ==
    LET e == re_lit(s, re_plus(s, re_pid_prefix(s, p), Space), "Memcheck,")
    IN IF At(s, p) # "=" THEN None
       ELSE IF e # 0 THEN Some(e) ELSE None

\* the words between "are" and "in loss record" of the three leak patterns:
\* definitel?y\s+lost, possibl?y\s+lost, still\s+reachabl?e
leak_words(issue_type, s, p) ==
    CASE issue_type = DEFINITELY_LOST ->
            re_lit_i(s, re_plus(s,
                re_lit_i(s, re_opt_i(s, re_lit_i(s, p, "definite"), "l"), "y"),
                Space), "lost")
      [] issue_type = POSSIBLY_LOST ->
            re_lit_i(s, re_plus(s,
                re_lit_i(s, re_opt_i(s, re_lit_i(s, p, "possib"), "l"), "y"),
                Space), "lost")
      [] issue_type = STILL_REACHABLE ->
            re_lit_i(s, re_opt_i(s,
                re_lit_i(s, re_plus(s, re_lit_i(s, p, "still"), Space),
                         "reachab"), "l"), "e")

\* the leak patterns from \s+bytes? on, started at p; the match so far
\* holds group 1
leak_tail(issue_type, s, p, g1) ==
    LET a == re_plus(s, re_lit_i(s, re_plus(s,
                 re_opt_i(s, re_lit_i(s, re_plus(s, p, Space), "byte"), "s"),
                 Space), "in"), Space)
        b == re_plus(s, a, DigitOrComma)                \* ([\d,]+)
        c == re_plus(s, re_lit_i(s, re_plus(s,
                 re_opt_i(s, re_lit_i(s, re_plus(s, b, Space), "block"), "s"),
                 Space), "are"), Space)
        d == leak_words(issue_type, s, c)
        e == re_plus(s, re_lit_i(s, re_plus(s, re_lit_i(s, re_plus(s,
                 re_lit_i(s, re_plus(s, d, Space), "in"),
                 Space), "loss"), Space), "record"), Space)
    IN \* (.+): whatever is left of the line, at least one character
       IF e # 0 /\ e <= Len(s)
       THEN Some(<<g1, SubSeq(s, a, b - 1), From(s, e)>>)
       ELSE None

\* ==\d+==\s+([\d,]+)(?:\s+\([^)]+\))?\s+bytes?\s+in\s+([\d,]+)\s+blocks?
\* \s+are\s+<leak words>\s+in\s+loss\s+record\s+(.+)   (re.IGNORECASE)
leak_match_at(issue_type, s, p) ==
    LET a == re_plus(s, re_pid_prefix(s, p), Space)
        b == re_plus(s, a, DigitOrComma)                \* ([\d,]+)
        g1 == SubSeq(s, a, b - 1)
        \* (?:\s+\([^)]+\))? : first with the group, then without it
        c == re_lit(s, re_plus_not(s, re_lit(s, re_plus(s, b, Space), "("),
                                   ")"), ")")
        with_group == IF c # 0 THEN leak_tail(issue_type, s, c, g1) ELSE None
    IN IF At(s, p) # "=" \/ b = 0 THEN None
       ELSE IF with_group.some THEN with_group
       ELSE leak_tail(issue_type, s, b, g1)

\* ==\d+==\s+Invalid\s+(read|write)\s+of\s+size\s+(\d+)   (re.IGNORECASE)
invalid_match_at(issue_type, s, p) ==
    LET word == IF issue_type = INVALID_READ THEN "read" ELSE "write"
        a == re_plus(s, re_lit_i(s, re_plus(s, re_lit_i(s, re_plus(s,
                 re_lit_i(s, re_plus(s, re_lit_i(s,
                     re_plus(s, re_pid_prefix(s, p), Space), "invalid"),
                     Space), word), Space), "of"), Space), "size"), Space)
        b == re_plus(s, a, Digit)                       \* (\d+)
    IN IF At(s, p) # "=" THEN None
       ELSE IF b # 0 THEN Some(<<SubSeq(s, a, b - 1)>>) ELSE None

\* _stack_frame_pattern (re.IGNORECASE)
\* ==\d+==\s+(?:at|by)\s+0x[0-9A-F]+:\s*(.+?)(?:\s+\((.+?)\))?$
\* matched at p: Some(<<group 1, group 2>>), group 2 None when the clause
\* did not take part.  Group 1 is lazy: the shortest text after which
\* either a clause " (...)" runs to the end of the line or the line ends.
frame_match_at(s, p) ==
    LET a == re_plus(s, re_pid_prefix(s, p), Space)
        at == re_lit_i(s, a, "at")
        b == IF at # 0 THEN at ELSE re_lit_i(s, a, "by")
        c == re_star(s, re_lit(s, re_plus(s,
                 re_lit_i(s, re_plus(s, b, Space), "0x"), AnyCaseHex), ":"),
                 Space)
        \* the clause \s+\((.+?)\)$ tried after a group 1 that ends at k:
        \* the position of its "(", 0 when it does not match
        paren(k) ==
            LET o == re_plus(s, k + 1, Space)
            IN IF o # 0 /\ At(s, o) = "(" /\ o + 1 <= Len(s) - 1
                  /\ At(s, Len(s)) = ")"
               THEN o ELSE 0
        ends == {k \in c..Len(s) : paren(k) # 0 \/ k = Len(s)}
        k1 == CHOOSE k \in ends : \A m \in ends : k <= m
    IN IF At(s, p) # "=" \/ c = 0 \/ c > Len(s) THEN None
       ELSE Some(<<SubSeq(s, c, k1),
                   IF paren(k1) # 0
                   THEN Some(SubSeq(s, paren(k1) + 1, Len(s) - 1))
                   ELSE None>>)

\* re.search(r'0x[0-9A-F]+', line): case-sensitive
address_match_at(s, p) ==
    LET e == re_plus(s, re_lit(s, p, "0x"), UpperHex)
    IN IF e # 0 THEN Some(SubSeq(s, p, e - 1)) ELSE None

\* re.search(r'([^:]+):(\d+)$', location_info) attempted at p
location_match_at(s, p) ==
    LET a == re_plus_not(s, p, ":")
        b == re_lit(s, a, ":")
        c == re_plus(s, b, Digit)
    IN IF c # 0 /\ c = Len(s) + 1
       THEN Some(<<SubSeq(s, p, a - 1), SubSeq(s, b, c - 1)>>)
       ELSE None

\* pattern.search: results[p] is the match attempted at position p of the
\* text; the match at the leftmost position where the pattern matches, None
\* when it matches nowhere
search(results) ==
    LET starts == {p \in DOMAIN results : results[p].some}
    IN IF starts = {} THEN None
       ELSE results[CHOOSE p \in starts : \A q \in starts : p <= q]

\* the keys of _issue_patterns, in the order the dict literal lists them
_issue_patterns ==
    <<DEFINITELY_LOST, POSSIBLY_LOST, STILL_REACHABLE, INVALID_READ,
      INVALID_WRITE>>

\* What _match_issue_line does with the match of one pattern.  The result
\* is [raised, value]: raised when int() raises ValueError, otherwise value
\* is Some(the 4-tuple).
convert_match(issue_type, g) ==
    IF issue_type \in {INVALID_READ, INVALID_WRITE}
    THEN LET n == int(g[1])
         IN IF n.some
            THEN [raised |-> FALSE,
                  value |-> Some(<<issue_type, n.val, 1, "N/A">>)]
            ELSE [raised |-> TRUE, value |-> None]
    ELSE LET bytes_count == int(remove_char(g[1], ","))
             blocks_count == int(remove_char(g[2], ","))
         IN IF bytes_count.some /\ blocks_count.some
            THEN [raised |-> FALSE,
                  value |-> Some(<<issue_type, bytes_count.val,
                                   blocks_count.val, strip(g[3])>>)]
            ELSE [raised |-> TRUE, value |-> None]

\* _issue_patterns[issue_type] attempted at p
issue_match_at(issue_type, s, p) ==
    IF issue_type \in {INVALID_READ, INVALID_WRITE}
    THEN invalid_match_at(issue_type, s, p)
    ELSE leak_match_at(issue_type, s, p)

\* the loop of _match_issue_line from the k-th pattern on
RECURSIVE _match_issue_line_from(_, _)
_match_issue_line_from(line, k) ==
    IF k > Len(_issue_patterns) THEN [raised |-> FALSE, value |-> None]
    ELSE LET issue_type == _issue_patterns[k]
             with(match) ==
                 IF match.some THEN convert_match(issue_type, match.val)
                 ELSE _match_issue_line_from(line, k + 1)
         IN with(search([p \in 1..Len(line) |->
                            issue_match_at(issue_type, line, p)]))

\* A plausible slip: the number cut at its first thousands separator
\* instead of having the separators removed.
RECURSIVE until_comma(_)
until_comma(s) ==
    IF s = "" \/ Head(s) = "," THEN "" ELSE Head(s) \o until_comma(Tail(s))

RECURSIVE _match_issue_line_cut_at_comma_from(_, _)
_match_issue_line_cut_at_comma_from(line, k) ==
    IF k > Len(_issue_patterns) THEN [raised |-> FALSE, value |-> None]
    ELSE LET t == _issue_patterns[k]
             with(match) ==
                 IF ~match.some
                 THEN _match_issue_line_cut_at_comma_from(line, k + 1)
                 ELSE IF t \in {INVALID_READ, INVALID_WRITE}
                 THEN convert_match(t, match.val)
                 ELSE convert_match(t, <<until_comma(match.val[1]),
                                         until_comma(match.val[2]),
                                         match.val[3]>>)
         IN with(search([p \in 1..Len(line) |-> issue_match_at(t, line, p)]))

_match_issue_line_cut_at_comma(line) ==
    _match_issue_line_cut_at_comma_from(line, 1)

\* A plausible slip: the invalid-access branch takes the block count from
\* the size as well.
_match_issue_line_blocks_from_size(line) ==
    LET r == _match_issue_line_from(line, 1)
    IN IF r.value.some /\ r.value.val[1] \in {INVALID_READ, INVALID_WRITE}
       THEN [raised |-> FALSE,
             value |-> Some(<<r.value.val[1], r.value.val[2], r.value.val[2],
                              "N/A">>)]
       ELSE r

_match_issue_line(line) == _match_issue_line_from(line, 1)

_parse_function_and_library(function_info, location_info) ==
    LET function_name ==
            IF function_info = "???" THEN "unknown" ELSE function_info
        library ==
            IF location_info # "" /\ startswith(location_info, "in ")
            THEN strip(From(location_info, 4)) ELSE "unknown"
    IN <<function_name, library>>

_parse_location_info(location_info) ==
    IF location_info = "" THEN <<None, None>>
    ELSE IF startswith(location_info, "in ") THEN <<None, None>>
    ELSE LET with(location_match) ==
                 IF location_match.some
                 THEN <<Some(strip(location_match.val[1])),
                        int(location_match.val[2])>>
                 ELSE IF location_info # "???"
                      THEN <<Some(location_info), None>>
                      ELSE <<None, None>>
         IN with(search([p \in 1..Len(location_info) |->
                            location_match_at(location_info, p)]))

\* _parse_stack_frame: Some(StackFrame) or None
_parse_stack_frame(line) ==
    LET with(match, address_match) ==
            IF ~match.some THEN None
            ELSE LET function_info == strip(match.val[1])
                     location_info ==
                         IF TruthyText(match.val[2]) THEN match.val[2].val
                         ELSE ""
                     address ==
                         IF address_match.some THEN address_match.val
                         ELSE "unknown"
                     frame(fl, loc) ==
                         StackFrame(address, fl[1], fl[2], loc[1], loc[2])
                 IN Some(frame(_parse_function_and_library(function_info,
                                                           location_info),
                               _parse_location_info(location_info)))
    IN with(search([p \in 1..Len(line) |-> frame_match_at(line, p)]),
            search([p \in 1..Len(line) |-> address_match_at(line, p)]))

\* _extract_stack_trace from the 0-based index k on: <<frames, consumed>>
RECURSIVE _extract_stack_trace_from(_, _, _, _)
_extract_stack_trace_from(ls, k, stack_frames, lines_consumed) ==
    IF k >= Len(ls) THEN <<stack_frames, lines_consumed>>
    ELSE LET line == strip(ls[k + 1])
             with(frame) ==
                 IF frame.some
                 THEN _extract_stack_trace_from(ls, k + 1,
                          Append(stack_frames, frame.val), lines_consumed + 1)
                 ELSE IF startswith(line, "==")
                         /\ (contains(line, "at 0x")
                             \/ contains(line, "by 0x"))
                 THEN _extract_stack_trace_from(ls, k + 1, stack_frames,
                                                lines_consumed + 1)
                 ELSE <<stack_frames, lines_consumed>>
         IN IF line = "" \/ ~startswith(line, "==")
            THEN <<stack_frames, lines_consumed>>
            ELSE with(_parse_stack_frame(line))

\* A plausible slip: lines_consumed is counted for decomposed frames only,
\* the increment of the continuation branch forgotten.
_extract_stack_trace_frames_counted(ls, start_index) ==
    LET count(st) == <<st[1], Len(st[1])>>
    IN count(_extract_stack_trace_from(ls, start_index, <<>>, 0))

\* A plausible slip: the line that ends the trace counted as consumed.
_extract_stack_trace_one_past(ls, start_index) ==
    LET count(st) == <<st[1], st[2] + 1>>
    IN count(_extract_stack_trace_from(ls, start_index, <<>>, 0))

\* A plausible slip: each frame is put in front of the list (insert(0, ..)
\* for append), so the list comes out innermost frame last.
_extract_stack_trace_newest_first(ls, start_index) ==
    LET reverse(st) == <<[k \in 1..Len(st[1]) |-> st[1][Len(st[1]) + 1 - k]],
                         st[2]>>
    IN reverse(_extract_stack_trace_from(ls, start_index, <<>>, 0))

_extract_stack_trace(ls, start_index) ==
    _extract_stack_trace_from(ls, start_index, <<>>, 0)

_get_source_location(stack_trace) ==
    LET both == {k \in DOMAIN stack_trace :
                    TruthyText(stack_trace[k].source_file)
                    /\ TruthyInt(stack_trace[k].line_number)}
        file == {k \in DOMAIN stack_trace :
                    TruthyText(stack_trace[k].source_file)}
        first(S) == CHOOSE k \in S : \A m \in S : k <= m
    IN IF both # {}
       THEN Some(stack_trace[first(both)].source_file.val \o ":" \o
                 str(stack_trace[first(both)].line_number.val))
       ELSE IF file # {} THEN Some(stack_trace[first(file)].source_file.val)
       ELSE None

max_lines_to_check == 50

\* the loop of _validate_valgrind_format over the lines of the file, from
\* the state [header_found, lines_checked] before line k (1-based)
RECURSIVE validate_loop(_, _, _)
validate_loop(ls, k, st) ==
    IF k > Len(ls) THEN st
    ELSE LET checked == st.lines_checked + 1
         IN IF search([p \in 1..Len(ls[k]) |->
                          header_match_at(ls[k], p)]).some
            THEN [header_found |-> TRUE, lines_checked |-> checked]
            ELSE IF checked >= max_lines_to_check
            THEN [header_found |-> FALSE, lines_checked |-> checked]
            ELSE validate_loop(ls, k + 1,
                     [header_found |-> FALSE, lines_checked |-> checked])

\* A plausible slip: the bound tested with > instead of >=, one line more.
RECURSIVE validate_loop_one_more(_, _, _)
validate_loop_one_more(ls, k, st) ==
    IF k > Len(ls) THEN st
    ELSE LET checked == st.lines_checked + 1
         IN IF search([p \in 1..Len(ls[k]) |->
                          header_match_at(ls[k], p)]).some
            THEN [header_found |-> TRUE, lines_checked |-> checked]
            ELSE IF checked > max_lines_to_check
            THEN [header_found |-> FALSE, lines_checked |-> checked]
            ELSE validate_loop_one_more(ls, k + 1,
                     [header_found |-> FALSE, lines_checked |-> checked])

_validate_valgrind_format_one_more(ls) ==
    validate_loop_one_more(ls, 1,
        [header_found |-> FALSE, lines_checked |-> 0])

\* _validate_valgrind_format: the locals at the end of the loop; the
\* method raises LogParserError when header_found is false
_validate_valgrind_format(ls) ==
    validate_loop(ls, 1, [header_found |-> FALSE, lines_checked |-> 0])

---------------------------------------------------------------------------
(* One MemoryIssue construction (models.py) *)

ByteCounts == {16, 48}
BlockCounts == {1, 2}

ModelIdle == mi_args = None /\ mi = None

\* MemoryIssue(kind, bytes, blocks, "N/A", [], None): no severity argument,
\* so the field takes the dataclass default before __post_init__ runs
ConstructDefault ==
    \E t \in IssueType, b \in ByteCounts, c \in BlockCounts :
        /\ mi_args' = Some([issue_type |-> t, bytes_count |-> b,
                            blocks_count |-> c, severity |-> None])
        /\ mi' = MemoryIssue(t, b, c, "N/A", <<>>, None, default_severity)
        /\ UNCHANGED <<classifierVars, parserVars, traceVars, runVars>>

\* MemoryIssue(kind, bytes, blocks, "N/A", [], None, severity=s)
ConstructWithSeverity ==
    \E t \in IssueType, b \in ByteCounts, c \in BlockCounts,
       s \in IssueSeverity :
        /\ mi_args' = Some([issue_type |-> t, bytes_count |-> b,
                            blocks_count |-> c, severity |-> Some(s)])
        /\ mi' = MemoryIssue(t, b, c, "N/A", <<>>, None, s)
        /\ UNCHANGED <<classifierVars, parserVars, traceVars, runVars>>

---------------------------------------------------------------------------
(* One call on an IssueClassifier (issue_classifier.py) *)

ClassifierKinds == {DEFINITELY_LOST, POSSIBLY_LOST, INVALID_READ, OTHER_TYPE}

\* the issues the classifier is fed: built by the constructor, as the parser
\* and every other caller builds them
ClassifierIssues ==
    {MemoryIssue(t, b, c, "N/A", <<>>, None, default_severity) :
        t \in ClassifierKinds, b \in ByteCounts, c \in BlockCounts}
    \cup {MemoryIssue(STILL_REACHABLE, 16, 1, "1 of 2", <<>>, Some("a.c:1"),
                      default_severity),
          MemoryIssue(STILL_REACHABLE, 16, 1, "2 of 2",
                      <<StackFrame("0x4005BE", "main", "/lib/libc.so.6",
                                   None, None)>>,
                      None, default_severity)}

GetIssuesBySeverity ==
    /\ cl_call = "none"
    /\ \E severity \in IssueSeverity :
          /\ cl_args' = [severity |-> severity]
          /\ cl_result' = get_issues_by_severity(cl_input, severity)
    /\ cl_call' = "get_issues_by_severity"
    /\ cl_input' = issues_after_iteration(cl_input)
    /\ UNCHANGED <<modelVars, parserVars, traceVars, runVars>>

GetCriticalIssues ==
    /\ cl_call = "none"
    /\ cl_call' = "get_critical_issues"
    /\ cl_result' = get_critical_issues(cl_input)
    /\ cl_input' = issues_after_iteration(cl_input)
    /\ UNCHANGED <<cl_args, modelVars, parserVars, traceVars, runVars>>

\* the ClassifiedIssues objects made of the issue list: the one
\* classify_issues returns, and the dataclass built with the list as it is
Receivers ==
    {classify_issues(cl_input),
     ClassifiedIssues(_group_issues_by_type(cl_input),
                      calculate_statistics(cl_input), cl_input)}

ClassifiedGetCriticalIssues ==
    /\ cl_call = "none"
    /\ \E self \in Receivers :
          /\ cl_args' = [self |-> [self EXCEPT !.all_issues =
                                       issues_after_iteration(@)]]
          /\ cl_result' = ClassifiedIssues_get_critical_issues(self)
    /\ cl_call' = "ClassifiedIssues.get_critical_issues"
    /\ UNCHANGED <<cl_input, modelVars, parserVars, traceVars, runVars>>

ClassifiedGetIssuesBySeverity ==
    /\ cl_call = "none"
    /\ \E self \in Receivers, severity \in IssueSeverity :
          /\ cl_args' = [self |-> [self EXCEPT !.all_issues =
                                       issues_after_iteration(@)],
                         severity |-> severity]
          /\ cl_result' = ClassifiedIssues_get_issues_by_severity(self,
                                                                  severity)
    /\ cl_call' = "ClassifiedIssues.get_issues_by_severity"
    /\ UNCHANGED <<cl_input, modelVars, parserVars, traceVars, runVars>>

\* issues of every severity; three are critical, with different bytes
FilterIssues ==
    {MemoryIssue(DEFINITELY_LOST, 16, 1, "N/A", <<>>, None, default_severity),
     MemoryIssue(DEFINITELY_LOST, 48, 2, "N/A", <<>>, None, default_severity),
     MemoryIssue(INVALID_READ, 16, 1, "N/A", <<>>, None, default_severity),
     MemoryIssue(POSSIBLY_LOST, 48, 1, "N/A", <<>>, None, default_severity),
     MemoryIssue(OTHER_TYPE, 16, 1, "N/A", <<>>, None, default_severity),
     MemoryIssue(STILL_REACHABLE, 16, 1, "N/A", <<>>, None, default_severity),
     MemoryIssue(OTHER_TYPE, 16, 1, "N/A", <<>>, None, INFO)}

\* issues that differ in what they offer as a source key
LocatedIssue ==
    MemoryIssue(DEFINITELY_LOST, 16, 1, "1 of 4", <<>>, Some("a.c:1"),
                default_severity)
LocatedIssueWithTrace ==
    MemoryIssue(DEFINITELY_LOST, 16, 1, "2 of 4",
                <<StackFrame("0x4005BE", "main", "unknown", Some("b.c"),
                             Some(2))>>,
                Some("b.c:2"), default_severity)
LibraryIssue ==
    MemoryIssue(POSSIBLY_LOST, 16, 1, "3 of 4",
                <<StackFrame("0x400555", "malloc", "/lib/libc.so.6", None,
                             None),
                  StackFrame("0x400556", "g", "/lib/libg.so", None, None)>>,
                None, default_severity)
UnknownFirstIssue ==
    MemoryIssue(POSSIBLY_LOST, 16, 1, "4 of 4",
                <<StackFrame("0x400555", "unknown", "/lib/libc.so.6", None,
                             None),
                  StackFrame("0x400556", "g", "/lib/libg.so", None, None)>>,
                None, default_severity)
UntracedIssue ==
    MemoryIssue(INVALID_READ, 4, 1, "N/A", <<>>, None, default_severity)

SourceIssues ==
    {LocatedIssue, LocatedIssueWithTrace, LibraryIssue, UnknownFirstIssue,
     UntracedIssue}

\* the issue list in which key k of 1..n occurs m[k] times, the keys in
\* rising or in falling order
KeyedIssue(k) ==
    MemoryIssue(DEFINITELY_LOST, 16, 1, "N/A", <<>>,
                Some("s" \o str(k) \o ".c:1"), default_severity)

RECURSIVE KeyedIssues(_, _, _)
KeyedIssues(n, m, rising) ==
    IF n = 0 THEN <<>>
    ELSE LET copies == [c \in 1..m[n] |-> KeyedIssue(n)]
         IN IF rising THEN KeyedIssues(n - 1, m, rising) \o copies
            ELSE copies \o KeyedIssues(n - 1, m, rising)

SourceInputs ==
    UNION {[1..n -> SourceIssues] : n \in 0..MaxIssues}
    \cup {KeyedIssues(n, m, rising) :
             n \in {MaxKeys - 2, MaxKeys - 1, MaxKeys}, m \in [1..MaxKeys -> 1..2],
             rising \in BOOLEAN}

ClassifierIdle ==
    cl_input = <<>> /\ cl_call = "none" /\ cl_args = None /\ cl_result = None

ClassifyIssues ==
    /\ cl_call = "none"
    /\ cl_call' = "classify_issues"
    /\ cl_result' = classify_issues(cl_input)
    /\ cl_input' = issues_after_sorted(issues_after_iteration(cl_input))
    /\ UNCHANGED <<cl_args, modelVars, parserVars, traceVars, runVars>>

CalculateStatistics ==
    /\ cl_call = "none"
    /\ cl_call' = "calculate_statistics"
    /\ cl_result' = calculate_statistics(cl_input)
    /\ cl_input' = issues_after_iteration(cl_input)
    /\ UNCHANGED <<cl_args, modelVars, parserVars, traceVars, runVars>>

PrioritizeIssues ==
    /\ cl_call = "none"
    /\ cl_call' = "prioritize_issues"
    /\ cl_result' = prioritize_issues(cl_input)
    /\ cl_input' = issues_after_sorted(cl_input)
    /\ UNCHANGED <<cl_args, modelVars, parserVars, traceVars, runVars>>

---------------------------------------------------------------------------
(* One parse_file call (log_parser.py) *)

ParserIdle ==
    /\ lines = <<>>
    /\ pc = "idle"
    /\ lines_checked = 0
    /\ header_found = FALSE
    /\ i = 0
    /\ issues = <<>>
    /\ outcome = "none"
    /\ tested = <<>>
    /\ consumed = <<>>

\* _validate_file: of its checks only the size of the file depends on the
\* document; an empty file is refused before it is opened
ValidateFile ==
    /\ pc = "start"
    /\ IF lines = <<>>
       THEN pc' = "done" /\ outcome' = "access_error"
       ELSE pc' = "validate" /\ UNCHANGED outcome
    /\ UNCHANGED <<lines, lines_checked, header_found, i, issues, tested,
                   consumed>>
    /\ UNCHANGED <<modelVars, classifierVars, traceVars, runVars>>

\* _validate_valgrind_format, then file.seek(0) and the start of
\* _parse_issues (issues = [], lines = file.readlines(), i = 0)
ValidateFormat ==
    /\ pc = "validate"
    /\ LET raise_or_return(st) ==
               /\ header_found' = st.header_found
               /\ lines_checked' = st.lines_checked
               /\ IF st.header_found
                  THEN pc' = "parse" /\ UNCHANGED outcome
                  ELSE pc' = "done" /\ outcome' = "format_error"
       IN raise_or_return(_validate_valgrind_format(lines))
    /\ i' = 0
    /\ issues' = <<>>
    /\ UNCHANGED <<lines, tested, consumed, modelVars, classifierVars,
                   traceVars, runVars>>

\* one iteration of the while loop of _parse_issues
ParseLine ==
    /\ pc = "parse"
    /\ i < Len(lines)
    /\ LET add_issue(m, st) ==
               /\ issues' = Append(issues,
                      MemoryIssue(m[1], m[2], m[3], m[4], st[1],
                                  _get_source_location(st[1]),
                                  default_severity))
               /\ i' = i + st[2] + 1
               /\ consumed' = consumed \o [k \in 1..st[2] |-> i + k]
               /\ UNCHANGED <<pc, outcome>>
           with(issue_match) ==
               IF issue_match.raised
               THEN \* ValueError leaves _parse_issues and parse_file
                    /\ pc' = "done"
                    /\ outcome' = "ValueError"
                    /\ UNCHANGED <<i, issues, consumed>>
               ELSE IF issue_match.value.some
               THEN add_issue(issue_match.value.val,
                              _extract_stack_trace(lines, i + 1))
               ELSE /\ i' = i + 1
                    /\ UNCHANGED <<pc, outcome, issues, consumed>>
       IN with(_match_issue_line(strip(lines[i + 1])))
    /\ tested' = Append(tested, i)
    /\ UNCHANGED <<lines, lines_checked, header_found>>
    /\ UNCHANGED <<modelVars, classifierVars, traceVars, runVars>>

\* the loop condition fails: return issues
ParseReturn ==
    /\ pc = "parse"
    /\ i >= Len(lines)
    /\ pc' = "done"
    /\ outcome' = "returned"
    /\ UNCHANGED <<lines, lines_checked, header_found, i, issues, tested,
                   consumed>>
    /\ UNCHANGED <<modelVars, classifierVars, traceVars, runVars>>

---------------------------------------------------------------------------
(* The trace taken after one announcement (log_parser.py, _parse_issues) *)

TraceIdle == tr_lines = <<>> /\ tr_call = "none" /\ tr_result = None

\* what _parse_issues does once lines[i] is an announcement (i = 0 here):
\* stack_trace, lines_consumed = _extract_stack_trace(lines, i + 1), then
\* _get_source_location(stack_trace) for the issue it builds
ExtractStackTrace ==
    /\ tr_call = "none"
    /\ tr_call' = "_extract_stack_trace"
    /\ LET build(st) ==
               tr_result' = [stack_trace |-> st[1],
                             lines_consumed |-> st[2],
                             source_location |-> _get_source_location(st[1])]
       IN build(_extract_stack_trace(tr_lines, 1))
    /\ UNCHANGED <<tr_lines, modelVars, classifierVars, parserVars, runVars>>

---------------------------------------------------------------------------
(* Parse-and-classify invocations on one LogParser and one IssueClassifier
   (valgrind_analyzer.py, main: parser.parse_file, then
   classifier.classify_issues) *)

\* LogParser.__init__: the attributes of a LogParser, each compiled
\* pattern named by its source
LogParser_init ==
    [_issue_patterns |-> _issue_patterns,
     _stack_frame_pattern |->
         "==\\d+==\\s+(?:at|by)\\s+0x[0-9A-F]+:\\s*(.+?)(?:\\s+\\((.+?)\\))?$",
     _valgrind_header_pattern |-> "==\\d+==\\s+Memcheck,"]

\* IssueClassifier.__init__ is pass: an object without attributes
IssueClassifier_init == [k \in {} |-> 0]

\* the locals of an invocation before its first step
Invocation(doc) ==
    [lines |-> doc, pc |-> "start", lines_checked |-> 0,
     header_found |-> FALSE, i |-> 0, issues |-> <<>>, outcome |-> "none",
     result |-> None]

\* one step of parse_file on the locals f of the invocation: _validate_file,
\* _validate_valgrind_format (with the start of _parse_issues), one
\* iteration of the loop of _parse_issues, or its return
parse_file_locals(f) ==
    IF f.pc = "start"
    THEN IF f.lines = <<>>
         THEN [f EXCEPT !.pc = "done", !.outcome = "access_error"]
         ELSE [f EXCEPT !.pc = "validate"]
    ELSE IF f.pc = "validate"
    THEN LET raise_or_return(st) ==
                 [f EXCEPT !.header_found = st.header_found,
                           !.lines_checked = st.lines_checked,
                           !.pc = IF st.header_found THEN "parse" ELSE "done",
                           !.outcome = IF st.header_found THEN @
                                       ELSE "format_error",
                           !.i = 0,
                           !.issues = <<>>]
         IN raise_or_return(_validate_valgrind_format(f.lines))
    ELSE IF f.i >= Len(f.lines)
    THEN [f EXCEPT !.pc = "parsed", !.outcome = "returned"]
    ELSE LET add_issue(m, st) ==
                 [f EXCEPT !.issues =
                               Append(@, MemoryIssue(m[1], m[2], m[3], m[4],
                                          st[1], _get_source_location(st[1]),
                                          default_severity)),
                           !.i = @ + st[2] + 1]
             with(issue_match) ==
                 IF issue_match.raised
                 THEN [f EXCEPT !.pc = "done", !.outcome = "ValueError"]
                 ELSE IF issue_match.value.some
                 THEN add_issue(issue_match.value.val,
                                _extract_stack_trace(f.lines, f.i + 1))
                 ELSE [f EXCEPT !.i = @ + 1]
         IN with(_match_issue_line(strip(f.lines[f.i + 1])))

\* A plausible slip: the issue list kept on the parser (self.issues = [] at
\* the start of _parse_issues, self.issues.append(issue) in its loop,
\* return self.issues).
parse_file_step_issues_on_self(self, f) ==
    LET held == IF "issues" \in DOMAIN self THEN self.issues ELSE <<>>
        after(g) == [self |-> ("issues" :> g.issues) @@ self, frame |-> g]
    IN IF f.pc = "start" THEN [self |-> self, frame |-> parse_file_locals(f)]
       ELSE after(parse_file_locals([f EXCEPT !.issues = held]))

\* one step of parser.parse_file(...): the LogParser after the step and the
\* locals after it.  No method of LogParser assigns an attribute; the
\* patterns the step uses are the attributes set by __init__.
parse_file_step(self, f) == [self |-> self, frame |-> parse_file_locals(f)]

\* "if not issues: return", then classifier.classify_issues(issues): the
\* IssueClassifier after the step and the locals after it
classify_issues_step(self, f) ==
    [self |-> self,
     frame |-> IF f.issues = <<>>
               THEN [f EXCEPT !.pc = "done", !.outcome = "no_issues"]
               ELSE [f EXCEPT !.pc = "done", !.outcome = "classified",
                              !.result = Some(classify_issues(f.issues))]]

\* the schedule once invocation t has taken a step: a turn is the steps an
\* invocation takes in a row; the first MaxTurns turns are kept
turn_taken(taken, t) ==
    IF Len(taken) >= MaxTurns THEN taken
    ELSE IF taken # <<>> /\ taken[Len(taken)] = t THEN taken
    ELSE Append(taken, t)

RunsIdle ==
    /\ parser = LogParser_init
    /\ classifier = IssueClassifier_init
    /\ run = <<>>
    /\ schedule = <<>>

\* an invocation takes its next step of parse_file
ParseFileStep ==
    \E t \in DOMAIN run :
        /\ run[t].pc \in {"start", "validate", "parse"}
        /\ LET take(r) ==
                   /\ parser' = r.self
                   /\ run' = [run EXCEPT ![t] = r.frame]
           IN take(parse_file_step(parser, run[t]))
        /\ schedule' = turn_taken(schedule, t)
        /\ UNCHANGED <<classifier, modelVars, classifierVars, parserVars,
                       traceVars>>

\* an invocation whose parse_file has returned goes on in main
ClassifyIssuesStep ==
    \E t \in DOMAIN run :
        /\ run[t].pc = "parsed"
        /\ LET take(r) ==
                   /\ classifier' = r.self
                   /\ run' = [run EXCEPT ![t] = r.frame]
           IN take(classify_issues_step(classifier, run[t]))
        /\ schedule' = turn_taken(schedule, t)
        /\ UNCHANGED <<parser, modelVars, classifierVars, parserVars,
                       traceVars>>

(* The documents parse_file is run on *)

Pid == "==1=="

LeakKindWords(t) ==
    CASE t = DEFINITELY_LOST -> "definitely lost"
      [] t = POSSIBLY_LOST -> "possibly lost"
      [] t = STILL_REACHABLE -> "still reachable"

\* a leak announcement as Memcheck prints it
LeakLine(f) ==
    Pid \o " " \o f.bytes \o f.breakdown \o " bytes in " \o f.blocks \o
    " blocks are " \o LeakKindWords(f.kind) \o " in loss record " \o f.record

\* an invalid-access announcement as Memcheck prints it
InvalidLine(f) ==
    Pid \o " Invalid " \o (IF f.kind = INVALID_READ THEN "read" ELSE "write")
    \o " of size " \o f.size

Leak1 == [kind |-> DEFINITELY_LOST, bytes |-> "48",
          breakdown |-> " (32 direct, 16 indirect)", blocks |-> "2",
          record |-> "5 of 10"]
Leak2 == [kind |-> POSSIBLY_LOST, bytes |-> "2,048", breakdown |-> "",
          blocks |-> "1,000", record |-> "2 of 10"]
Leak3 == [kind |-> STILL_REACHABLE, bytes |-> "16", breakdown |-> "",
          blocks |-> "1", record |-> "1 of 10"]
\* a byte count of separators only: [\d,]+ matches it
Leak4 == [kind |-> DEFINITELY_LOST, bytes |-> ",", breakdown |-> "",
          blocks |-> "1", record |-> "1 of 1"]

LeakFields == {Leak1, Leak2, Leak3, Leak4}

\* two announcements on one line, the later one of the earlier recognizer
TwoLeaksLine == LeakLine(Leak2) \o " " \o LeakLine(Leak1)

InvalidFields == {[kind |-> INVALID_READ, size |-> "4"],
                  [kind |-> INVALID_WRITE, size |-> "16"]}

BannerLine == Pid \o " Memcheck, a memory error detector"
FrameLines == {Pid \o "    by 0x4005BE: main (test.c:10)",
               Pid \o "    at 0x400555: ??? (in /lib/libc.so.6)"}
OtherLines == {"", "x", Pid \o " LEAK SUMMARY:",
               Pid \o " Command: ./Memcheck, x"}

BodyLines ==
    {BannerLine} \cup {LeakLine(f) : f \in LeakFields} \cup {TwoLeaksLine}
    \cup {InvalidLine(f) : f \in InvalidFields} \cup FrameLines
    \cup OtherLines

Pad(n) == [k \in 1..n |-> "x"]

\* short documents: any lines, after the banner or without it
ShortDocuments ==
    UNION {[1..m -> BodyLines] : m \in 0..MaxBody}
    \cup {<<BannerLine>> \o body :
             body \in UNION {[1..m -> BodyLines] : m \in 0..MaxBody}}

\* long documents: two lines that fall on lines 50 and 51, or 51 and 52
LongDocuments ==
    {Pad(n) \o <<l1, l2>> :
        n \in {max_lines_to_check - 1, max_lines_to_check},
        l1 \in BodyLines, l2 \in BodyLines}

(* The lines _extract_stack_trace is run on *)

FullFrameLine == Pid \o "    at 0x4005BE: main (test.c:10)"
LibraryFrameLine == Pid \o "    at 0x400555: ??? (in /lib/libc.so.6)"
LineZeroFrameLine == Pid \o "    by 0x4005BE: main (test.c:0)"
NoFileFrameLine == Pid \o "    by 0x4005BE: f ( :12)"
FileOnlyFrameLine == Pid \o "    by 0x4005BE: h (lib.c)"
\* an address token and nothing to decompose
BareAddressLine == Pid \o "    at 0x4005BE:"
\* the frame pattern is case-insensitive, the token test is not
UpperCaseFrameLine == Pid \o "    AT 0x4005BE: g (b.c:2)"
UnprefixedLine == "at 0x4005BE: k (c.c:3)"
SummaryLine == Pid \o " LEAK SUMMARY:"

TraceLines ==
    {FullFrameLine, LibraryFrameLine, LineZeroFrameLine, NoFileFrameLine,
     FileOnlyFrameLine, BareAddressLine, UpperCaseFrameLine, UnprefixedLine,
     SummaryLine, ""}

\* an announcement and up to MaxTrace lines after it
TraceDocuments ==
    {<<InvalidLine([kind |-> INVALID_READ, size |-> "4"])>> \o t :
        t \in UNION {[1..m -> TraceLines] : m \in 0..MaxTrace}}

\* a frame line as Memcheck prints it: marker, address, function text and,
\* where it has one, a parenthesized clause
FrameLine(f) ==
    Pid \o "    " \o f.marker \o " " \o f.address \o ": " \o f.function
    \o (IF f.clause.some THEN " (" \o f.clause.val \o ")" ELSE "")

FrameFields ==
    {[marker |-> "at", address |-> "0x4005BE", function |-> "main",
      clause |-> Some("test.c:10")],
     [marker |-> "at", address |-> "0x400555", function |-> "???",
      clause |-> Some("in /lib/libc.so.6")],
     [marker |-> "by", address |-> "0x4005BE", function |-> "main",
      clause |-> None],
     [marker |-> "by", address |-> "0x4005BE", function |-> "h",
      clause |-> Some("lib.c")],
     [marker |-> "by", address |-> "0x4005BE", function |-> "k",
      clause |-> Some("???")],
     \* a C++ function text with a blank before a parenthesis
     [marker |-> "by", address |-> "0x4005BE",
      function |-> "std::function<void ()>::operator()() const",
      clause |-> Some("in /usr/lib/libfoo.so")],
     \* a source file with a drive letter
     [marker |-> "by", address |-> "0x4005BE", function |-> "g",
      clause |-> Some("C:\\src\\a.c:12")],
     \* addresses with lower-case digits
     [marker |-> "by", address |-> "0x4005be", function |-> "main",
      clause |-> Some("test.c:10")],
     [marker |-> "at", address |-> "0xabc", function |-> "f",
      clause |-> Some("in /lib/libc.so.6")]}

\* an announcement and up to MaxFrames frame lines after it
FrameDocuments ==
    {<<InvalidLine([kind |-> INVALID_READ, size |-> "4"])>> \o t :
        t \in UNION {[1..m -> {FrameLine(f) : f \in FrameFields}] :
                        m \in 1..MaxFrames}}

\* an invalid-access announcement with an address token on its line
AddressedAnnouncementLine == Pid \o " Invalid write of size 16 at 0x4005BE"

ScanLines ==
    {FullFrameLine, BareAddressLine, AddressedAnnouncementLine,
     InvalidLine([kind |-> INVALID_READ, size |-> "4"]), SummaryLine}

\* documents with a trace: the banner, an announcement and up to MaxScan
\* lines after it
ScanDocuments ==
    {<<BannerLine, a>> \o t :
        a \in {LeakLine(Leak1),
               InvalidLine([kind |-> INVALID_WRITE, size |-> "16"])},
        t \in UNION {[1..m -> ScanLines] : m \in 1..MaxScan}}

Documents == ShortDocuments \cup LongDocuments \cup ScanDocuments

---------------------------------------------------------------------------
(* Specifications *)

InitModel ==
    ModelIdle /\ ClassifierIdle /\ ParserIdle /\ TraceIdle /\ RunsIdle
NextModel == ConstructDefault \/ ConstructWithSeverity
SpecModel == InitModel /\ [][NextModel]_vars

InitClassifier ==
    /\ ModelIdle
    /\ ParserIdle
    /\ TraceIdle
    /\ RunsIdle
    /\ \E n \in 0..MaxIssues : cl_input \in [1..n -> ClassifierIssues]
    /\ cl_call = "none"
    /\ cl_args = None
    /\ cl_result = None
NextClassifier == ClassifyIssues \/ CalculateStatistics \/ PrioritizeIssues
SpecClassifier == InitClassifier /\ [][NextClassifier]_vars

InitFilters ==
    /\ ModelIdle
    /\ ParserIdle
    /\ TraceIdle
    /\ RunsIdle
    /\ \E n \in 0..MaxIssues : cl_input \in [1..n -> FilterIssues]
    /\ cl_call = "none"
    /\ cl_args = None
    /\ cl_result = None
NextFilters ==
    \/ GetIssuesBySeverity
    \/ GetCriticalIssues
    \/ ClassifiedGetCriticalIssues
    \/ ClassifiedGetIssuesBySeverity
SpecFilters == InitFilters /\ [][NextFilters]_vars

\* one call of any of the classifier's methods and filter helpers, on a
\* list of issues with and without stack frames
CallIssues ==
    {LocatedIssueWithTrace, LibraryIssue, UntracedIssue,
     MemoryIssue(DEFINITELY_LOST, 48, 2, "N/A", <<>>, None, default_severity)}

InitCalls ==
    /\ ModelIdle
    /\ ParserIdle
    /\ TraceIdle
    /\ RunsIdle
    /\ \E n \in 0..MaxIssues : cl_input \in [1..n -> CallIssues]
    /\ cl_call = "none"
    /\ cl_args = None
    /\ cl_result = None
NextCalls == NextClassifier \/ NextFilters
SpecCalls == InitCalls /\ [][NextCalls]_vars

InitSources ==
    /\ ModelIdle
    /\ ParserIdle
    /\ TraceIdle
    /\ RunsIdle
    /\ cl_input \in SourceInputs
    /\ cl_call = "none"
    /\ cl_args = None
    /\ cl_result = None
NextSources == ClassifyIssues \/ CalculateStatistics
SpecSources == InitSources /\ [][NextSources]_vars

InitParser ==
    /\ ModelIdle
    /\ ClassifierIdle
    /\ TraceIdle
    /\ RunsIdle
    /\ lines \in Documents
    /\ pc = "start"
    /\ lines_checked = 0
    /\ header_found = FALSE
    /\ i = 0
    /\ issues = <<>>
    /\ outcome = "none"
    /\ tested = <<>>
    /\ consumed = <<>>
NextParser == ValidateFile \/ ValidateFormat \/ ParseLine \/ ParseReturn
SpecParser == InitParser /\ [][NextParser]_vars

\* parse_file runs on: a step that can be taken is taken.  Weak fairness of
\* each step; for ValidateFormat and ParseLine it is written out with the
\* step's enabling condition, which is its guard.
SpecParserFair ==
    /\ SpecParser
    /\ WF_vars(ValidateFile)
    /\ WF_vars(ParseReturn)
    /\ []<>(pc # "validate") \/ []<><<ValidateFormat>>_vars
    /\ []<>(~(pc = "parse" /\ i < Len(lines))) \/ []<><<ParseLine>>_vars

InitTrace ==
    /\ ModelIdle
    /\ ClassifierIdle
    /\ ParserIdle
    /\ RunsIdle
    /\ tr_lines \in TraceDocuments
    /\ tr_call = "none"
    /\ tr_result = None
NextTrace == ExtractStackTrace
SpecTrace == InitTrace /\ [][NextTrace]_vars

InitFrames ==
    /\ ModelIdle
    /\ ClassifierIdle
    /\ ParserIdle
    /\ RunsIdle
    /\ tr_lines \in FrameDocuments
    /\ tr_call = "none"
    /\ tr_result = None
NextFrames == ExtractStackTrace
SpecFrames == InitFrames /\ [][NextFrames]_vars

\* the documents of the interleaved invocations: two issues, one with a
\* trace; an invalid access and a leak; no banner; the banner alone; a
\* leak announcement whose byte count is a comma
InterleavedDocuments ==
    {<<BannerLine, LeakLine(Leak1), FullFrameLine,
       InvalidLine([kind |-> INVALID_READ, size |-> "4"])>>,
     <<BannerLine, InvalidLine([kind |-> INVALID_WRITE, size |-> "16"]), LeakLine(Leak2)>>,
     <<"x", LeakLine(Leak1)>>,
     <<BannerLine>>,
     <<BannerLine, LeakLine(Leak1), LeakLine(Leak4)>>}

Threads == {1, 2}

InitInterleaved ==
    /\ ModelIdle
    /\ ClassifierIdle
    /\ ParserIdle
    /\ TraceIdle
    /\ parser = LogParser_init
    /\ classifier = IssueClassifier_init
    /\ run \in [Threads -> {Invocation(d) : d \in InterleavedDocuments}]
    /\ schedule = <<>>
NextInterleaved == ParseFileStep \/ ClassifyIssuesStep
SpecInterleaved == InitInterleaved /\ [][NextInterleaved]_vars

---------------------------------------------------------------------------
(* Claims about the classifier *)

StatsOfResult ==
    IF cl_call = "classify_issues" THEN cl_result.statistics ELSE cl_result

\* C1: for every non-empty issue list, the Statistics of calculate_statistics
\* and of classify_issues have per-kind counts that sum to total_issues,
\* per-kind bytes that sum to total_bytes_lost and per-kind blocks that sum
\* to total_blocks_lost.
C1_PerKindSumsEqualTotals ==
    (cl_call \in {"calculate_statistics", "classify_issues"}
        /\ cl_input # <<>>)
    => /\ DictSum(StatsOfResult.issues_by_type) = StatsOfResult.total_issues
       /\ DictSum(StatsOfResult.bytes_by_type) = StatsOfResult.total_bytes_lost
       /\ DictSum(StatsOfResult.blocks_by_type)
              = StatsOfResult.total_blocks_lost
       /\ StatsOfResult.total_issues = Len(cl_input)
       /\ StatsOfResult.total_bytes_lost
              = SeqSum([p \in DOMAIN cl_input |-> cl_input[p].bytes_count])

C1_Witness ==
    /\ cl_call = "classify_issues"
    /\ Len(cl_input) = 3
    /\ Cardinality({cl_input[p].issue_type : p \in DOMAIN cl_input}) = 2
    /\ cl_result.statistics.total_bytes_lost = 16 + 48 + 48

\* the priority rule, stated on a list
PriorityOrdered(s) ==
    \A p, q \in DOMAIN s :
        p < q =>
            /\ s[p].severity <= s[q].severity
            /\ s[p].severity = s[q].severity
                   => s[p].bytes_count >= s[q].bytes_count
            /\ (s[p].severity = s[q].severity
                   /\ s[p].bytes_count = s[q].bytes_count)
                   => s[p].blocks_count >= s[q].blocks_count

\* C2: every list returned by prioritize_issues, all_issues and every
\* per-kind list of classify_issues is ordered by severity rank ascending,
\* then bytes descending, then blocks descending.
C2_PriorityOrder ==
    /\ cl_call = "prioritize_issues" => PriorityOrdered(cl_result)
    /\ cl_call = "classify_issues" =>
           /\ PriorityOrdered(cl_result.all_issues)
           /\ \A t \in DOMAIN cl_result.issues_by_type :
                  PriorityOrdered(cl_result.issues_by_type[t])

C2_Witness ==
    /\ cl_call = "prioritize_issues"
    /\ Len(cl_result) = 3
    /\ ~PriorityOrdered(cl_input)
    /\ cl_result[1].severity < cl_result[2].severity
    /\ cl_result[2].severity = cl_result[3].severity
    /\ cl_result[2].bytes_count = cl_result[3].bytes_count
    /\ cl_result[2].blocks_count > cl_result[3].blocks_count

SameKey(x, y) ==
    /\ x.severity = y.severity
    /\ x.bytes_count = y.bytes_count
    /\ x.blocks_count = y.blocks_count

\* out holds the issues of inp, each as often, and issues of equal key in
\* the order they have in inp
StablePermutation(inp, out) ==
    /\ SameBag(inp, out)
    /\ \A x \in Range(inp) \cup Range(out) :
           SelectSeq(out, LAMBDA y : SameKey(x, y))
               = SelectSeq(inp, LAMBDA y : SameKey(x, y))

\* C3: prioritization is stable and a permutation of its input (the input
\* of a per-kind list being the issues of that kind in input order).
C3_StablePermutation ==
    /\ cl_call = "prioritize_issues" => StablePermutation(cl_input, cl_result)
    /\ cl_call = "classify_issues" =>
           /\ StablePermutation(cl_input, cl_result.all_issues)
           /\ \A t \in DOMAIN cl_result.issues_by_type :
                  StablePermutation(
                      SelectSeq(cl_input, LAMBDA y : y.issue_type = t),
                      cl_result.issues_by_type[t])

C3_Witness ==
    /\ cl_call = "prioritize_issues"
    /\ Len(cl_input) = 3
    /\ ~PriorityOrdered(cl_input)
    /\ \E p, q \in DOMAIN cl_result :
           /\ p < q
           /\ SameKey(cl_result[p], cl_result[q])
           /\ cl_result[p] # cl_result[q]

\* C4: classify_issues on the empty list returns zero totals, empty
\* per-kind mappings, empty severity distribution and top_sources, and an
\* empty issues_by_type and all_issues.
C4_EmptyClassification ==
    (cl_call = "classify_issues" /\ cl_input = <<>>)
    => /\ cl_result.statistics.total_issues = 0
       /\ cl_result.statistics.total_bytes_lost = 0
       /\ cl_result.statistics.total_blocks_lost = 0
       /\ DOMAIN cl_result.statistics.issues_by_type = {}
       /\ DOMAIN cl_result.statistics.bytes_by_type = {}
       /\ DOMAIN cl_result.statistics.blocks_by_type = {}
       /\ DOMAIN cl_result.statistics.severity_distribution = {}
       /\ cl_result.statistics.top_sources = <<>>
       /\ DOMAIN cl_result.issues_by_type = {}
       /\ cl_result.all_issues = <<>>

C4_Witness == cl_call = "classify_issues" /\ cl_input = <<>>

---------------------------------------------------------------------------
(* Claims about MemoryIssue *)

\* the severity table of the specification
TableSeverity(t) ==
    CASE t \in {DEFINITELY_LOST, INVALID_READ, INVALID_WRITE, USE_AFTER_FREE}
            -> CRITICAL
      [] t = POSSIBLY_LOST -> HIGH
      [] t = STILL_REACHABLE -> LOW
      [] t = OTHER_TYPE -> MEDIUM

\* C5: a MemoryIssue constructed without a severity argument has the table
\* severity of its kind.
C5_DefaultSeverityTable ==
    (mi_args.some /\ ~mi_args.val.severity.some)
    => mi.severity = TableSeverity(mi_args.val.issue_type)

C5_Witness ==
    /\ mi_args.some
    /\ ~mi_args.val.severity.some
    /\ mi_args.val.issue_type = POSSIBLY_LOST
    /\ mi.severity = HIGH

\* C6: a MemoryIssue constructed with an explicitly supplied severity s has
\* severity s, for every kind and every one of the five severities.
C6_ExplicitSeverityKept ==
    (mi_args.some /\ mi_args.val.severity.some)
    => mi.severity = mi_args.val.severity.val

---------------------------------------------------------------------------
(* Claims about the parser *)

\* the lines of the documents that are the tool banner
IsBanner(l) == l = BannerLine

BannerAmongFirst(n) ==
    \E k \in 1..n : k <= Len(lines) /\ IsBanner(lines[k])

IsAnnouncement(l) ==
    l \in {LeakLine(f) : f \in LeakFields \ {Leak4}}
          \cup {InvalidLine(f) : f \in InvalidFields}

C8_ParsingNeverAborts ==
    (pc = "done" /\ header_found) => outcome = "returned"

\* the integer a number with thousands separators denotes
RECURSIVE SeparatedValue(_, _)
SeparatedValue(t, acc) ==
    IF t = "" THEN acc
    ELSE IF Head(t) = "," THEN SeparatedValue(Tail(t), acc)
    ELSE SeparatedValue(Tail(t),
             10 * acc + (CHOOSE d \in 0..9 : digit_char(d) = Head(t)))

\* what the claim reads off a leak announcement
LeakReading(f, record) ==
    [issue_type |-> f.kind, bytes_count |-> SeparatedValue(f.bytes, 0),
     blocks_count |-> SeparatedValue(f.blocks, 0), loss_record |-> record]

\* the readings of a line: of the announcement it is, or, for two
\* announcements on one line, of the one whose recognizer comes first in
\* the fixed order (its loss record being the rest of the line)
LeakReadings(l) ==
    {LeakReading(f, f.record) : f \in {g \in LeakFields : l = LeakLine(g)}}
    \cup (IF l = TwoLeaksLine THEN {LeakReading(Leak1, Leak1.record)}
          ELSE {})

EmittedIssue == issues'[Len(issues')]
AnnouncementLine == strip(lines[i + 1])
Emits == pc = "parse" /\ Len(issues') = Len(issues) + 1

\* C9: an issue made from a line matched by a leak-style recognizer has the
\* bytes and blocks of the announcement with the thousands separators
\* removed (the breakdown in parentheses ignored), the loss record that
\* follows "loss record", and the kind of the first recognizer, in the
\* fixed order, that matches.
C9_LeakFieldsExtracted ==
    [][(Emits /\ EmittedIssue.issue_type
                    \in {DEFINITELY_LOST, POSSIBLY_LOST, STILL_REACHABLE})
       => \E r \in LeakReadings(AnnouncementLine) :
             /\ EmittedIssue.issue_type = r.issue_type
             /\ EmittedIssue.bytes_count = r.bytes_count
             /\ EmittedIssue.blocks_count = r.blocks_count
             /\ EmittedIssue.loss_record = r.loss_record]_vars

C9_Witness ==
    /\ pc = "done"
    /\ outcome = "returned"
    /\ Len(issues) = 2
    /\ lines = <<BannerLine, LeakLine(Leak2), TwoLeaksLine>>
    /\ issues[1].issue_type = POSSIBLY_LOST
    /\ issues[1].bytes_count = 2048
    /\ issues[1].blocks_count = 1000
    /\ issues[2].issue_type = DEFINITELY_LOST
    /\ issues[2].bytes_count = 48

\* the lines that carry an address reference
IsTraceLine(l) == contains(l, "at 0x") \/ contains(l, "by 0x")

NoTraceLineFollows == i + 2 > Len(lines) \/ ~IsTraceLine(lines[i + 2])

\* C10: an issue made from an invalid-read or invalid-write announcement
\* has the announced size as bytes, 1 block and the loss record "N/A"; when
\* no trace line follows the announcement its stack trace is empty and its
\* source location absent.
C10_InvalidAccessFields ==
    [][(Emits /\ EmittedIssue.issue_type \in {INVALID_READ, INVALID_WRITE})
       => /\ \E f \in InvalidFields :
                /\ AnnouncementLine \in {InvalidLine(f),
                                         InvalidLine(f) \o " at 0x4005BE"}
                /\ EmittedIssue.issue_type = f.kind
                /\ EmittedIssue.bytes_count = SeparatedValue(f.size, 0)
          /\ EmittedIssue.blocks_count = 1
          /\ EmittedIssue.loss_record = "N/A"
          /\ NoTraceLineFollows
                => /\ EmittedIssue.stack_trace = <<>>
                   /\ EmittedIssue.source_location = None]_vars

C10_Witness ==
    /\ pc = "done"
    /\ outcome = "returned"
    /\ lines = <<BannerLine,
                 InvalidLine([kind |-> INVALID_WRITE, size |-> "16"])>>
    /\ Len(issues) = 1
    /\ issues[1].issue_type = INVALID_WRITE
    /\ issues[1].bytes_count = 16
    /\ issues[1].stack_trace = <<>>
    /\ issues[1].source_location = None

---------------------------------------------------------------------------
(* Claims about the trace taken after an announcement *)

TraceTaken == tr_call = "_extract_stack_trace"

HasSourceFile(frame) == frame.source_file.some /\ frame.source_file.val # ""
HasLineNumber(frame) == frame.line_number.some

\* the first position of a trace whose frame is in the set P of frames
FirstIn(st, P) ==
    LET at == {k \in DOMAIN st : st[k] \in P}
    IN CHOOSE k \in at : \A m \in at : k <= m

\* the source location the claim derives from a trace
DerivedLocation(st) ==
    LET both == {st[k] : k \in {m \in DOMAIN st :
                    HasSourceFile(st[m]) /\ HasLineNumber(st[m])}}
        file == {st[k] : k \in {m \in DOMAIN st : HasSourceFile(st[m])}}
    IN IF both # {}
       THEN Some(st[FirstIn(st, both)].source_file.val \o ":" \o
                 str(st[FirstIn(st, both)].line_number.val))
       ELSE IF file # {} THEN Some(st[FirstIn(st, file)].source_file.val)
       ELSE None

\* C11: the derived source location is "file:line" of the first frame that
\* has both a source file and a line number, else the source file of the
\* first frame that has one, else absent; for every trace, whatever line
\* numbers its frames carry.
C11_SourceLocationOfFirstFrame ==
    TraceTaken
    => tr_result.source_location = DerivedLocation(tr_result.stack_trace)

\* C12: every frame that has a line number has a source file that is
\* present and not empty.
C12_LineNumberNeedsSourceFile ==
    TraceTaken
    => \A k \in DOMAIN tr_result.stack_trace :
          HasLineNumber(tr_result.stack_trace[k])
          => HasSourceFile(tr_result.stack_trace[k])

\* C13: every line number a frame carries is a positive integer.
C13_LineNumberPositive ==
    TraceTaken
    => \A k \in DOMAIN tr_result.stack_trace :
          HasLineNumber(tr_result.stack_trace[k])
          => tr_result.stack_trace[k].line_number.val >= 1

\* the lines after the announcement
Following == SubSeq(tr_lines, 2, Len(tr_lines))

\* the length of the longest run of lines in P at the start of ls
RECURSIVE RunLength(_, _)
RunLength(ls, P) ==
    IF ls = <<>> \/ Head(ls) \notin P THEN 0 ELSE 1 + RunLength(Tail(ls), P)

\* non-blank lines that carry the prefix marker and an address token
TokenLines ==
    {l \in TraceLines :
        /\ strip(l) # ""
        /\ startswith(strip(l), "==")
        /\ contains(l, "at 0x") \/ contains(l, "by 0x")}

\* what each line of TraceLines that decomposes decomposes to
FrameOf(l) ==
    CASE l = FullFrameLine ->
            StackFrame("0x4005BE", "main", "unknown", Some("test.c"),
                       Some(10))
      [] l = LibraryFrameLine ->
            StackFrame("0x400555", "unknown", "/lib/libc.so.6", None, None)
      [] l = LineZeroFrameLine ->
            StackFrame("0x4005BE", "main", "unknown", Some("test.c"),
                       Some(0))
      [] l = NoFileFrameLine ->
            StackFrame("0x4005BE", "f", "unknown", Some(""), Some(12))
      [] l = FileOnlyFrameLine ->
            StackFrame("0x4005BE", "h", "unknown", Some("lib.c"), None)
      [] l = UpperCaseFrameLine ->
            StackFrame("0x4005BE", "g", "unknown", Some("b.c"), Some(2))

DecomposingLines ==
    {FullFrameLine, LibraryFrameLine, LineZeroFrameLine, NoFileFrameLine,
     FileOnlyFrameLine, UpperCaseFrameLine}

\* C19 as stated: the lines consumed are the longest run, right after the
\* announcement, of non-blank prefixed lines that contain "at 0x" or
\* "by 0x", whether or not they decompose.
C19_ConsumedIsTokenRun ==
    TraceTaken => tr_result.lines_consumed = RunLength(Following, TokenLines)

\* C19 as amended: the lines consumed are the longest run, right after the
\* announcement, of non-blank prefixed lines that decompose into a frame or
\* contain "at 0x" or "by 0x"; the line that ends the run is not consumed,
\* nor any line after it.
C19_ConsumedIsTraceRun ==
    TraceTaken
    => tr_result.lines_consumed
           = RunLength(Following,
                       {l \in DecomposingLines : startswith(strip(l), "==")}
                       \cup TokenLines)

C19_Witness ==
    /\ TraceTaken
    /\ Following = <<BareAddressLine, UpperCaseFrameLine, SummaryLine>>
    /\ tr_result.lines_consumed = 2

\* the frames of the lines of ls that decompose, in the order of the lines
RECURSIVE FramesOf(_)
FramesOf(ls) ==
    IF ls = <<>> THEN <<>>
    ELSE (IF Head(ls) \in DecomposingLines THEN <<FrameOf(Head(ls))>>
          ELSE <<>>) \o FramesOf(Tail(ls))

\* C20: the frame list is exactly the frames of the consumed lines that
\* decompose, in the order of the lines; a consumed line that does not
\* decompose adds no frame, so there are never more frames than consumed
\* lines.
C20_FramesOfConsumedLines ==
    TraceTaken
    => /\ tr_result.stack_trace
              = FramesOf(SubSeq(Following, 1, tr_result.lines_consumed))
       /\ Len(tr_result.stack_trace) <= tr_result.lines_consumed

C20_Witness ==
    /\ TraceTaken
    /\ Following = <<FullFrameLine, BareAddressLine, LibraryFrameLine>>
    /\ tr_result.lines_consumed = 3
    /\ Len(tr_result.stack_trace) = 2
    /\ tr_result.stack_trace[1].function_name = "main"
    /\ tr_result.stack_trace[2].function_name = "unknown"

---------------------------------------------------------------------------
(* Claims about the top sources *)

\* the source keys an issue contributes, as the claim has them: its source
\* location when present, else "function (library)" of its first frame
\* when that frame's function is not "unknown", else none
KeysOf(x) ==
    IF x.source_location.some THEN {x.source_location.val}
    ELSE IF Len(x.stack_trace) >= 1
            /\ x.stack_trace[1].function_name # "unknown"
         THEN {x.stack_trace[1].function_name \o " (" \o
               x.stack_trace[1].library \o ")"}
         ELSE {}

ContributedKeys == UNION {KeysOf(cl_input[p]) : p \in DOMAIN cl_input}

\* the number of issues that contribute key k
Frequency(k) == Cardinality({p \in DOMAIN cl_input : k \in KeysOf(cl_input[p])})

TopSources == StatsOfResult.top_sources

StatisticsMade == cl_call \in {"calculate_statistics", "classify_issues"}

\* C14: top_sources has at most 10 keys, each once, in non-increasing order
\* of the number of issues that contribute the key; a key of strictly more
\* issues than another comes strictly before it, and a key is left out only
\* if 10 keys of at least its frequency are listed.
C14_TopSourcesRanking ==
    StatisticsMade
    => /\ Len(TopSources) <= 10
       /\ \A p, q \in DOMAIN TopSources :
             /\ p # q => TopSources[p] # TopSources[q]
             /\ p < q => Frequency(TopSources[p]) >= Frequency(TopSources[q])
       /\ \A p \in DOMAIN TopSources : TopSources[p] \in ContributedKeys
       /\ \A a \in ContributedKeys, p \in DOMAIN TopSources :
             Frequency(a) > Frequency(TopSources[p])
             => \E q \in 1..(p - 1) : TopSources[q] = a
       /\ \A a \in ContributedKeys \ Range(TopSources) :
             /\ Len(TopSources) = 10
             /\ \A p \in DOMAIN TopSources :
                   Frequency(TopSources[p]) >= Frequency(a)

\* eleven keys, the last met twice: it is listed first and a key met once
\* is left out
C14_Witness ==
    /\ cl_call = "calculate_statistics"
    /\ Cardinality(ContributedKeys) = 11
    /\ Len(TopSources) = 10
    /\ Frequency("s11.c:1") = 2
    /\ \A k \in ContributedKeys \ {"s11.c:1"} : Frequency(k) = 1
    /\ TopSources[1] = "s11.c:1"
    /\ cl_input[1].source_location = Some("s1.c:1")

\* C15: each issue contributes at most one key to the count: its source
\* location when present, else "function (library)" of its first frame when
\* the trace is not empty and that function is not "unknown", else nothing;
\* later frames are never used.  (Stated on lists of at most 10 keys, where
\* every counted key is listed.)
C15_OneKeyPerIssue ==
    (StatisticsMade /\ Cardinality(ContributedKeys) <= 10)
    => /\ Range(TopSources) = ContributedKeys
       /\ Len(TopSources) = Cardinality(ContributedKeys)
       /\ \A p, q \in DOMAIN TopSources :
             p < q => Frequency(TopSources[p]) >= Frequency(TopSources[q])

C15_Witness ==
    /\ cl_call = "calculate_statistics"
    /\ cl_input = <<UnknownFirstIssue, LibraryIssue, LocatedIssueWithTrace>>
    /\ TopSources = <<"malloc (/lib/libc.so.6)", "b.c:2">>

---------------------------------------------------------------------------
(* Claims about the filter helpers *)

\* the issues of a list that have a severity, in the order of the list
OfSeverity(iss, severity) == SelectSeq(iss, LAMBDA x : x.severity = severity)

\* the list a filter helper was given: its argument, or the all_issues of
\* its receiver
FilterInput ==
    IF cl_call \in {"ClassifiedIssues.get_critical_issues",
                    "ClassifiedIssues.get_issues_by_severity"}
    THEN cl_args.self.all_issues ELSE cl_input

\* the severity a filter helper was asked for
FilterSeverity ==
    IF cl_call \in {"get_critical_issues",
                    "ClassifiedIssues.get_critical_issues"}
    THEN CRITICAL ELSE cl_args.severity

FilterCalled ==
    cl_call \in {"get_issues_by_severity", "get_critical_issues",
                 "ClassifiedIssues.get_critical_issues",
                 "ClassifiedIssues.get_issues_by_severity"}

\* C16 as stated: all four filter helpers return exactly the issues of the
\* input list that have the requested severity, in the order of the input
\* list.
C16_FiltersKeepInputOrder ==
    FilterCalled => cl_result = OfSeverity(FilterInput, FilterSeverity)

\* C16 as amended: get_issues_by_severity of both classes and
\* ClassifiedIssues.get_critical_issues return exactly the issues of the
\* input list that have the requested severity, in the order of the input
\* list; IssueClassifier.get_critical_issues returns exactly the critical
\* issues of the input list in priority order, issues of equal priority in
\* the order of the input list.
C16_FiltersExact ==
    /\ (FilterCalled /\ cl_call # "get_critical_issues")
           => cl_result = OfSeverity(FilterInput, FilterSeverity)
    /\ cl_call = "get_critical_issues"
           => /\ StablePermutation(OfSeverity(cl_input, CRITICAL), cl_result)
              /\ PriorityOrdered(cl_result)

C16_Witness ==
    /\ cl_call = "get_critical_issues"
    /\ Len(cl_input) = 3
    /\ cl_input[1].bytes_count = 16 /\ cl_input[1].severity = CRITICAL
    /\ cl_input[2].severity = HIGH
    /\ cl_input[3].bytes_count = 48 /\ cl_input[3].severity = CRITICAL
    /\ cl_result = <<cl_input[3], cl_input[1]>>

---------------------------------------------------------------------------
\* the per-kind lists of a mapping, one after the other
RECURSIVE Concatenated(_, _)
Concatenated(by_type, kinds) ==
    IF kinds = {} THEN <<>>
    ELSE LET t == CHOOSE k \in kinds : TRUE
         IN by_type[t] \o Concatenated(by_type, kinds \ {t})

\* C17: in a result of classify_issues each per-kind list holds only issues
\* of its kind, the kinds that have an entry are the kinds of the issues
\* given (a kind without issue has none), all_issues holds every issue as
\* often as the per-kind lists together and as often as the list given, and
\* the per-kind count of Statistics is the length of the kind's list.
C17_ViewsAgree ==
    cl_call = "classify_issues" =>
        LET by_type == cl_result.issues_by_type
            counts == cl_result.statistics.issues_by_type
        IN /\ \A t \in DOMAIN by_type :
                  \A p \in DOMAIN by_type[t] : by_type[t][p].issue_type = t
           /\ DOMAIN by_type = {cl_input[p].issue_type : p \in DOMAIN cl_input}
           /\ \A t \in DOMAIN by_type : by_type[t] # <<>>
           /\ SameBag(cl_result.all_issues,
                      Concatenated(by_type, DOMAIN by_type))
           /\ SameBag(cl_result.all_issues, cl_input)
           /\ DOMAIN counts = DOMAIN by_type
           /\ \A t \in DOMAIN by_type : counts[t] = Len(by_type[t])

\* three issues of two kinds, two of them equal
C17_Witness ==
    /\ cl_call = "classify_issues"
    /\ Len(cl_input) = 3
    /\ cl_input[1] = cl_input[3]
    /\ cl_input[1].issue_type # cl_input[2].issue_type
    /\ Cardinality(DOMAIN cl_result.issues_by_type) = 2
    /\ \E t \in DOMAIN cl_result.issues_by_type :
           Len(cl_result.issues_by_type[t]) = 2

---------------------------------------------------------------------------
\* what an invocation ends with when no other invocation runs: its steps
\* taken one after the other on a LogParser p and an IssueClassifier c
RECURSIVE run_alone(_, _, _)
run_alone(p, c, f) ==
    IF f.pc = "done" THEN f
    ELSE IF f.pc = "parsed"
    THEN LET go(r) == run_alone(p, r.self, r.frame)
         IN go(classify_issues_step(c, f))
    ELSE LET go(r) == run_alone(r.self, c, r.frame)
         IN go(parse_file_step(p, f))

Alone(doc) == run_alone(LogParser_init, IssueClassifier_init, Invocation(doc))

---------------------------------------------------------------------------
(* Claims about the line scan of _parse_issues *)

\* the lines the documents are made of
DocumentLines == BodyLines \cup ScanLines \cup {"x"}

\* the lines a recognizer matches
RecognizerLines ==
    {LeakLine(f) : f \in LeakFields} \cup {InvalidLine(f) : f \in InvalidFields}
    \cup {TwoLeaksLine, AddressedAnnouncementLine}

\* the lines the detector returns an announcement for: a recognizer matches
\* and the counts convert
DetectedLines == RecognizerLines \ {LeakLine(Leak4)}

\* the kind of the announcement of a detected line
KindOf(l) ==
    IF l = AddressedAnnouncementLine THEN INVALID_WRITE
    ELSE IF l = TwoLeaksLine THEN Leak1.kind
    ELSE IF \E f \in InvalidFields : l = InvalidLine(f)
    THEN (CHOOSE f \in InvalidFields : l = InvalidLine(f)).kind
    ELSE (CHOOSE f \in LeakFields : l = LeakLine(f)).kind

\* the lines a trace goes on over: not blank, prefixed, with an address
\* token (every line of the documents that decomposes has one)
TraceRunLines ==
    {l \in DocumentLines :
        /\ strip(l) # ""
        /\ startswith(strip(l), "==")
        /\ contains(l, "at 0x") \/ contains(l, "by 0x")}

\* the lines after the tested one
Rest == SubSeq(lines, i + 2, Len(lines))

\* the indices of the detected lines among the tested ones, in scan order
DetectedIndices == SelectSeq(tested, LAMBDA k : lines[k + 1] \in DetectedLines)

\* C21: an iteration of the scan on a line no recognizer matches advances
\* the index by one and emits nothing; on a detected announcement it
\* advances by 1 + n, n being the lines of the trace run that follows, and
\* appends one issue of the announcement's kind; so the issues returned are
\* one per detected announcement, in the order of their lines.
C21_ScanAdvance ==
    /\ [][(pc = "parse" /\ i < Len(lines))
            => /\ lines[i + 1] \notin RecognizerLines
                   => i' = i + 1 /\ issues' = issues
               /\ lines[i + 1] \in DetectedLines
                   => /\ i' = i + 1 + RunLength(Rest, TraceRunLines)
                      /\ Len(issues') = Len(issues) + 1
                      /\ SubSeq(issues', 1, Len(issues)) = issues
                      /\ issues'[Len(issues')].issue_type
                             = KindOf(lines[i + 1])]_vars
    /\ [](outcome = "returned"
            => /\ Len(issues) = Len(DetectedIndices)
               /\ \A k \in DOMAIN issues :
                      issues[k].issue_type
                          = KindOf(lines[DetectedIndices[k] + 1]))

\* a trace of two lines ended by an announcement, which is tested next
C21_Witness ==
    /\ outcome = "returned"
    /\ lines = <<BannerLine, LeakLine(Leak1), FullFrameLine, BareAddressLine,
                 InvalidLine([kind |-> INVALID_READ, size |-> "4"])>>
    /\ tested = <<0, 1, 4>>
    /\ consumed = <<2, 3>>
    /\ Len(issues) = 2
    /\ issues[1].issue_type = DEFINITELY_LOST
    /\ issues[2].issue_type = INVALID_READ

---------------------------------------------------------------------------
(* Claims about the decomposition of a frame line *)

\* the fields a frame line was printed from
FieldsOf(l) == CHOOSE f \in FrameFields : FrameLine(f) = l

\* the fields of the k-th line after the announcement
FieldsAt(k) == FieldsOf(tr_lines[k + 1])

\* every line of the document was taken as a frame
FramesTaken ==
    /\ TraceTaken
    /\ Len(tr_result.stack_trace) = Len(tr_lines) - 1

LibraryPrefixed(f) == f.clause.some /\ startswith(f.clause.val, "in ")

\* C22: a frame whose trailing clause starts with "in " has the text after
\* the prefix as library and neither source file nor line number; a frame
\* without such a clause has library "unknown"; function text "???" gives
\* function name "unknown", any other function text is kept.
C22_LibraryAndFunction ==
    TraceTaken
    => /\ FramesTaken
       /\ \A k \in DOMAIN tr_result.stack_trace :
              LET f == FieldsAt(k)
                  frame == tr_result.stack_trace[k]
              IN /\ LibraryPrefixed(f)
                     => /\ frame.library = SubSeq(f.clause.val, 4,
                                                  Len(f.clause.val))
                        /\ frame.source_file = None
                        /\ frame.line_number = None
                 /\ ~LibraryPrefixed(f) => frame.library = "unknown"
                 /\ frame.function_name
                        = IF f.function = "???" THEN "unknown"
                          ELSE f.function

\* the position of the last colon of a text that has one
FinalColon(c) ==
    CHOOSE p \in 1..Len(c) :
        At(c, p) = ":" /\ \A q \in (p + 1)..Len(c) : At(c, q) # ":"

BeforeFinalColon(c) == SubSeq(c, 1, FinalColon(c) - 1)
AfterFinalColon(c) == SubSeq(c, FinalColon(c) + 1, Len(c))

\* the text has the form <text>:<digits>
HasLineSuffix(c) ==
    /\ \E p \in 1..Len(c) : At(c, p) = ":"
    /\ BeforeFinalColon(c) # ""
    /\ AfterFinalColon(c) # ""
    /\ \A p \in 1..Len(AfterFinalColon(c)) : At(AfterFinalColon(c), p) \in Digit

\* C23: a frame whose clause is not library-prefixed and ends in a colon
\* and digits has the clause text before the final colon, earlier colons
\* included, as source file and the digits as line number; a clause other
\* than "???" without such an ending is the source file, without line
\* number.
C23_SourceFileAndLine ==
    TraceTaken
    => /\ FramesTaken
       /\ \A k \in DOMAIN tr_result.stack_trace :
              LET f == FieldsAt(k)
                  frame == tr_result.stack_trace[k]
              IN (f.clause.some /\ ~LibraryPrefixed(f)
                  /\ f.clause.val # "???")
                 => IF HasLineSuffix(f.clause.val)
                    THEN /\ frame.source_file
                                = Some(BeforeFinalColon(f.clause.val))
                         /\ frame.line_number
                                = Some(SeparatedValue(
                                      AfterFinalColon(f.clause.val), 0))
                    ELSE /\ frame.source_file = Some(f.clause.val)
                         /\ frame.line_number = None

\* C24: the address of a frame is the whole hexadecimal token after the
\* marker of its line, never a part of it and never "unknown".
C24_AddressIsWholeToken ==
    TraceTaken
    => /\ FramesTaken
       /\ \A k \in DOMAIN tr_result.stack_trace :
              tr_result.stack_trace[k].address = FieldsAt(k).address

\* C25: every issue the scan holds or returns has one of the five kinds
\* that have a recognizer, and the severity the default table gives its
\* kind: Critical, High or Low.
C25_ParsedKindsAndSeverities ==
    \A k \in DOMAIN issues :
        /\ issues[k].issue_type
               \in {DEFINITELY_LOST, POSSIBLY_LOST, STILL_REACHABLE,
                    INVALID_READ, INVALID_WRITE}
        /\ issues[k].severity = TableSeverity(issues[k].issue_type)
        /\ issues[k].severity \in {CRITICAL, HIGH, LOW}

\* a possibly-lost and a still-reachable leak returned, High and Low
C25_Witness ==
    /\ outcome = "returned"
    /\ Len(issues) = 2
    /\ issues[1].issue_type = POSSIBLY_LOST /\ issues[1].severity = HIGH
    /\ issues[2].issue_type = STILL_REACHABLE /\ issues[2].severity = LOW

\* C26: no line a recognizer matches is consumed as a trace line, and the
\* issues returned are as many as the lines of the document that a
\* recognizer matches.
C26_AnnouncementsNeverConsumed ==
    outcome = "returned"
    => /\ \A k \in DOMAIN consumed :
              lines[consumed[k] + 1] \notin RecognizerLines
       /\ Len(issues)
              = Cardinality({k \in DOMAIN lines : lines[k] \in RecognizerLines})

\* no index occurs twice in a sequence of indices
NoRepeat(s) == \A p, q \in DOMAIN s : p # q => s[p] # s[q]

\* C27: the scan ends on every document; an iteration that goes on to a
\* next one has increased the index, which never exceeds the number of
\* lines; no line is tested twice, consumed twice, or both tested and
\* consumed, and when the scan returns every line has been one of the two.
C27_ScanTerminates ==
    /\ <>(pc = "done")
    /\ [][(pc = "parse" /\ pc' = "parse") => i' > i]_vars
    /\ [](/\ i <= Len(lines)
          /\ NoRepeat(tested)
          /\ NoRepeat(consumed)
          /\ Range(tested) \cap Range(consumed) = {}
          /\ Range(tested) \cup Range(consumed) \subseteq 0..(Len(lines) - 1)
          /\ outcome = "returned"
                 => Range(tested) \cup Range(consumed)
                        = 0..(Len(lines) - 1))

\* a trace that runs to the last line of the document
C27_Witness ==
    /\ outcome = "returned"
    /\ lines = <<BannerLine, LeakLine(Leak1), FullFrameLine, BareAddressLine,
                 FullFrameLine>>
    /\ i = Len(lines)
    /\ tested = <<0, 1>>
    /\ consumed = <<2, 3, 4>>

---------------------------------------------------------------------------
(* Further claims about the classifier *)

\* C28: in a result of classify_issues the list of every kind is the
\* issues of that kind of all_issues, in the order they have there.
C28_GroupingAndSortingCommute ==
    cl_call = "classify_issues"
    => \A t \in IssueType :
           SelectSeq(cl_result.all_issues, LAMBDA x : x.issue_type = t)
               = IF t \in DOMAIN cl_result.issues_by_type
                 THEN cl_result.issues_by_type[t] ELSE <<>>

\* an unsorted list of two kinds, the two issues of one kind of equal
\* priority and not equal
C28_Witness ==
    /\ cl_call = "classify_issues"
    /\ Len(cl_input) = 3
    /\ ~PriorityOrdered(cl_input)
    /\ cl_input[1].issue_type = cl_input[3].issue_type
    /\ cl_input[1].issue_type # cl_input[2].issue_type
    /\ SameKey(cl_input[1], cl_input[3])
    /\ cl_input[1] # cl_input[3]
    /\ cl_result.all_issues[1] = cl_input[2]
    /\ cl_result.issues_by_type[cl_input[1].issue_type]
           = <<cl_input[1], cl_input[3]>>

---------------------------------------------------------------------------
(* Claim about ties in the ranking of sources *)

\* the position in the input of the first issue that contributes key k
FirstContribution(k) ==
    CHOOSE p \in DOMAIN cl_input :
        /\ k \in KeysOf(cl_input[p])
        /\ \A q \in 1..(p - 1) : k \notin KeysOf(cl_input[q])

\* key a is ranked ahead of key b: more issues, or as many and met earlier
RankedAhead(a, b) ==
    \/ Frequency(a) > Frequency(b)
    \/ /\ Frequency(a) = Frequency(b)
       /\ FirstContribution(a) < FirstContribution(b)

\* C30: the ranking of sources is determined by the input list: of two keys
\* of equal frequency the one whose first contributing issue comes earlier is
\* listed first, and when the limit of 10 cuts a group of equal frequency the
\* keys met earlier are the ones kept; top_sources is the first 10 keys of
\* the one order by (frequency descending, first contribution ascending).
C30_TiesByFirstContribution ==
    StatisticsMade
    => /\ \A p, q \in DOMAIN TopSources :
             p < q => RankedAhead(TopSources[p], TopSources[q])
       /\ \A a \in ContributedKeys \ Range(TopSources) :
             /\ Len(TopSources) = 10
             /\ \A p \in DOMAIN TopSources : RankedAhead(TopSources[p], a)

\* eleven keys of one issue each, met in the order s11, s10, ..., s1: the
\* list starts with s11 and the limit leaves out s1, the key met last
C30_Witness ==
    /\ cl_call = "calculate_statistics"
    /\ Cardinality(ContributedKeys) = 11
    /\ \A k \in ContributedKeys : Frequency(k) = 1
    /\ cl_input[1].source_location = Some("s11.c:1")
    /\ TopSources[1] = "s11.c:1"
    /\ TopSources[10] = "s2.c:1"
    /\ "s1.c:1" \notin Range(TopSources)

=============================================================================
